---- MODULE Spec2Model ----
(***************************************************************************)
(* A model of not_redis: the storage engine (src/src/storage/engine.rs),   *)
(* its expiration manager (storage/expire.rs), its memory tracker          *)
(* (storage/memory.rs) and the Client commands of src/src/lib.rs that are  *)
(* built on the engine's get / set / remove / set_expiry / persist.        *)
(*                                                                         *)
(* Instants are naturals read from the clock `now`.  Option::None of an    *)
(* Instant or of a usize is None (-1).  Byte strings and keys are strings. *)
(* usize values (the accountant's total) are kept as the signed            *)
(* representative of their value modulo 2^64: a negative number n stands   *)
(* for the wrapped value 2^64 + n.                                         *)
(***************************************************************************)
EXTENDS Integers, Sequences, FiniteSets, TLC

\* ------------------------------------------------------------------ bounds
\* the clock runs from 0 to MaxTime
MaxTime == 1
\* durations given to EXPIRE are 0..MaxDur
MaxDur == 1
\* the accountant's total is kept within -MaxTotal..MaxTotal
MaxTotal == 220
\* LFU counters are kept at or below MaxCount
MaxCount == 8
\* lists hold at most MaxListLen elements
MaxListLen == 2
\* i64 and u64 are modelled IntWidth bits wide
IntWidth == 4
\* the strings and byte strings given to the conversions have at most
\* MaxStrLen bytes
MaxStrLen == 2

\* ------------------------------------------------------- program constants
KEY_OVERHEAD == 50
COUNTER_INIT == 5
\* std::mem::size_of::<Vec<u8>>() on a 64-bit target
SIZE_OF_VEC == 24
\* Option::None of an Instant or of a usize
None == -1

Keys == {"k1", "k2", "k3"}
Vals == {"v", "vvv"}
Elems == {"a", "b"}
Instants == 0..(MaxTime + MaxDur)

Policies ==
  {"NoEviction", "AllKeysLru", "AllKeysRandom", "AllKeysLfu",
   "VolatileLru", "VolatileRandom", "VolatileTtl", "VolatileLfu"}

IsVolatile(p) == p \in {"VolatileLru", "VolatileRandom", "VolatileTtl", "VolatileLfu"}

\* ------------------------------------------------------------- small helpers
Range(s) == {s[i] : i \in DOMAIN s}

MapPut(m, k, v) == [x \in (DOMAIN m) \cup {k} |-> IF x = k THEN v ELSE m[x]]

MapRemove(m, k) == [x \in (DOMAIN m) \ {k} |-> m[x]]

SeqRetainNe(s, k) == SelectSeq(s, LAMBDA x : x # k)

RECURSIVE SumLen(_)
SumLen(S) ==
  IF S = {} THEN 0
  ELSE LET x == CHOOSE y \in S : TRUE IN Len(x) + SumLen(S \ {x})

RECURSIVE SumSeqLen(_)
SumSeqLen(s) == IF s = <<>> THEN 0 ELSE Len(Head(s)) + SumSeqLen(Tail(s))

RECURSIVE SumMapLen(_)
SumMapLen(m) ==
  IF DOMAIN m = {} THEN 0
  ELSE LET f == CHOOSE y \in DOMAIN m : TRUE
       IN Len(f) + Len(m[f]) + SumMapLen(MapRemove(m, f))

\* all orderings of a finite set as sequences
RECURSIVE Orderings(_)
Orderings(S) ==
  IF S = {} THEN {<<>>}
  ELSE UNION {{<<x>> \o t : t \in Orderings(S \ {x})} : x \in S}

\* ------------------------------------------------------------ typed values
StringData(b) == [kind |-> "String", val |-> b]
ListData(l) == [kind |-> "List", val |-> l]
SetData(s) == [kind |-> "Set", val |-> s]
HashData(h) == [kind |-> "Hash", val |-> h]

StoredValue(d, at) == [data |-> d, expire_at |-> at]

\* a collection's capacity is taken to be its element count (the tightest
\* allocation)
Capacity(n) == n

EstimatedSize(d) ==
  CASE d.kind = "String" -> Len(d.val)
    [] d.kind = "List" -> SumSeqLen(d.val) + SIZE_OF_VEC * Capacity(Len(d.val))
    [] d.kind = "Set" -> SumLen(d.val) + SIZE_OF_VEC * Capacity(Cardinality(d.val))
    [] d.kind = "Hash" ->
         SumMapLen(d.val) + (2 * SIZE_OF_VEC) * Capacity(Cardinality(DOMAIN d.val))

IsExpired(v, t) == v.expire_at # None /\ t >= v.expire_at

\* --------------------------------------------------------- usize arithmetic
\* a >= b on usize, for a kept as a signed representative and 0 <= b small
UsizeGe(a, b) == a < 0 \/ a >= b

\* ------------------------------------------------------ expiration manager
\* The schedule BTreeMap<Instant, HashSet<String>> is a function on Instants;
\* a bucket that is absent and a bucket that is empty are the same here (no
\* code path tells them apart).
EmptySchedule == [t \in Instants |-> {}]

ScheduleExpiration(exp, key, at) == [exp EXCEPT ![at] = @ \cup {key}]

CancelExpiration(exp, key) == [t \in Instants |-> exp[t] \ {key}]

\* ---------------------------------------------------------- memory tracker
\* The engine's state as one record: data (the DashMap), exp (the schedule),
\* total (total_memory), lru (lru_order), cnt (access_counts), maxmemory and
\* policy (the StorageConfig).
NoKey == ""

EntrySize(key, value) == EstimatedSize(value.data) + Len(key) + KEY_OVERHEAD

IsEnabled(e) == e.maxmemory # None

IsLruPolicy(p) == p \in {"AllKeysLru", "VolatileLru"}

IsLfuPolicy(p) == p \in {"AllKeysLfu", "VolatileLfu"}

\* u32::saturating_add(1); counters stay far below u32::MAX within MaxCount
SaturatingAdd(c) == c + 1

UpdateAccess(e, key) ==
  LET e1 == IF IsLruPolicy(e.policy)
            THEN [e EXCEPT !.lru = Append(SeqRetainNe(@, key), key)]
            ELSE e
  IN IF IsLfuPolicy(e.policy)
     THEN [e1 EXCEPT !.cnt =
             MapPut(@, key,
                    SaturatingAdd(IF key \in DOMAIN @ THEN @[key] ELSE COUNTER_INIT))]
     ELSE e1

RemoveFromTracking(e, key) ==
  [e EXCEPT !.lru = SeqRetainNe(@, key), !.cnt = MapRemove(@, key)]

AddMemory(e, key, value) ==
  UpdateAccess([e EXCEPT !.total = @ + EntrySize(key, value)], key)

RemoveMemory(e, key, value) ==
  RemoveFromTracking([e EXCEPT !.total = @ - EntrySize(key, value)], key)

CheckEvictionNeeded(e) ==
  /\ e.maxmemory # None
  /\ UsizeGe(e.total, e.maxmemory)
  /\ e.policy # "NoEviction"

ShouldRejectWrite(e) ==
  /\ e.maxmemory # None
  /\ UsizeGe(e.total, e.maxmemory)
  /\ e.policy = "NoEviction"

\* a record_read that leaves the tracker as it was
RecordRead_Nothing(e, key) == e

RecordRead(e, key) == UpdateAccess(e, key)

\* get_value(k).map(|v| v.expire_at.is_some()).unwrap_or(false)
HasTtl(e, k) == k \in DOMAIN e.data /\ e.data[k].expire_at # None

\* evict_*: each gives the set of possible results [e, key], key = NoKey for
\* None
EvictRandom(e, volatile_only) ==
  LET keys == Range(e.lru)
      candidate == IF volatile_only THEN {k \in keys : HasTtl(e, k)} ELSE keys
  IN IF candidate = {} THEN {[e |-> e, key |-> NoKey]}
     ELSE {[e |-> e, key |-> k] : k \in candidate}

RECURSIVE EvictLruPop(_, _)
EvictLruPop(e, volatile_only) ==
  IF e.lru = <<>> THEN [e |-> e, key |-> NoKey]
  ELSE LET key == Head(e.lru)
           e1 == [e EXCEPT !.lru = Tail(@)]
       IN IF key \in DOMAIN e.data /\ (~volatile_only \/ e.data[key].expire_at # None)
          THEN [e |-> e1, key |-> key]
          ELSE EvictLruPop(e1, volatile_only)

EvictLru(e, volatile_only) == {EvictLruPop(e, volatile_only)}

\* an evict_lfu that takes a key with the highest counter
EvictLfu_Highest(e, volatile_only) ==
  LET cand == {k \in DOMAIN e.cnt : volatile_only => HasTtl(e, k)}
      maxs == {k \in cand : \A j \in cand : e.cnt[k] >= e.cnt[j]}
  IN IF cand = {} THEN {[e |-> e, key |-> NoKey]}
     ELSE {[e |-> [e EXCEPT !.cnt = MapRemove(@, k)], key |-> k] : k \in maxs}

EvictLfu(e, volatile_only) ==
  LET cand == {k \in DOMAIN e.cnt : volatile_only => HasTtl(e, k)}
      mins == {k \in cand : \A j \in cand : e.cnt[k] <= e.cnt[j]}
  IN IF cand = {} THEN {[e |-> e, key |-> NoKey]}
     ELSE {[e |-> [e EXCEPT !.cnt = MapRemove(@, k)], key |-> k] : k \in mins}

EvictTtl(e) ==
  LET idx == {i \in DOMAIN e.lru : HasTtl(e, e.lru[i])}
      at(i) == e.data[e.lru[i]].expire_at
      \* min_by_key returns the first of several equal minima
      best == {i \in idx : \A j \in idx : at(i) < at(j) \/ (at(i) = at(j) /\ i <= j)}
  IN IF idx = {} THEN {[e |-> e, key |-> NoKey]}
     ELSE {[e |-> RemoveFromTracking(e, e.lru[i]), key |-> e.lru[i]] : i \in best}

EvictOne(e) ==
  CASE e.policy = "NoEviction" -> {[e |-> e, key |-> NoKey]}
    [] e.policy \in {"AllKeysRandom", "VolatileRandom"} ->
         EvictRandom(e, IsVolatile(e.policy))
    [] e.policy \in {"AllKeysLru", "VolatileLru"} -> EvictLru(e, IsVolatile(e.policy))
    [] e.policy \in {"AllKeysLfu", "VolatileLfu"} -> EvictLfu(e, IsVolatile(e.policy))
    [] e.policy = "VolatileTtl" -> EvictTtl(e)

\* ----------------------------------------------------------- storage engine
\* Engine operations are functions from the engine record to the record (or
\* records) after the call, with the call's result.

\* the eviction loop of set: the states it can end in; hung marks a loop that
\* makes no progress (evict_one names a key that data.remove does not find and
\* the tracker is left as it was), which never ends
RECURSIVE EvictLoop(_)
EvictLoop(e) ==
  IF ~CheckEvictionNeeded(e) THEN {[e |-> e, hung |-> FALSE]}
  ELSE UNION {
         IF o.key = NoKey THEN {[e |-> o.e, hung |-> FALSE]}
         ELSE IF o.key \in DOMAIN o.e.data
         THEN EvictLoop(RemoveMemory([o.e EXCEPT !.data = MapRemove(@, o.key),
                                                 !.exp = CancelExpiration(@, o.key)],
                                     o.key, o.e.data[o.key]))
         ELSE IF o.e = e THEN {[e |-> e, hung |-> TRUE]}
         ELSE EvictLoop(o.e)
         : o \in EvictOne(e)}

\* the part of set after the eviction loop, old being the value read before it
\* (NoOld when the key was absent)
NoOld == [absent |-> TRUE]

SetInstall(e, key, value, expire_at, old) ==
  LET enabled == IsEnabled(e)
      e1 == IF old # NoOld /\ old.expire_at # None
            THEN [e EXCEPT !.exp = CancelExpiration(@, key)]
            ELSE e
      e2 == IF old # NoOld /\ enabled THEN RemoveMemory(e1, key, old) ELSE e1
      stored == StoredValue(value, expire_at)
      e3 == [e2 EXCEPT !.data = MapPut(@, key, stored)]
      e4 == IF expire_at # None
            THEN [e3 EXCEPT !.exp = ScheduleExpiration(@, key, expire_at)]
            ELSE e3
  IN IF enabled THEN AddMemory(e4, key, stored) ELSE e4

\* StorageEngine::set: the set of outcomes [e, status].  status is "ok",
\* "rejected" (the silent early return), "panic" (the usize subtraction of
\* memory_delta overflows in a build with overflow checks) or "hung".
\* Without overflow checks the subtraction wraps to a large positive value.
EngineSet(e, key, value, expire_at) ==
  LET enabled == IsEnabled(e)
      old == IF key \in DOMAIN e.data THEN e.data[key] ELSE NoOld
      newSize == EstimatedSize(value)
      oldSize == IF old = NoOld THEN 0 ELSE EstimatedSize(old.data)
      install(x) == [e |-> SetInstall(x, key, value, expire_at, old), status |-> "ok"]
  IN IF enabled /\ ShouldRejectWrite(e) THEN {[e |-> e, status |-> "rejected"]}
     ELSE IF ~enabled THEN {install(e)}
     ELSE (IF newSize < oldSize THEN {[e |-> e, status |-> "panic"]} ELSE {})
          \cup
          (IF newSize # oldSize
           THEN {IF o.hung THEN [e |-> o.e, status |-> "hung"] ELSE install(o.e)
                 : o \in EvictLoop(e)}
           ELSE {install(e)})

\* StorageEngine::set from the return of its first evict_one on: evict_one
\* named victim, and old is the value set read on entry.  data.remove takes
\* the entry the victim has now; the loop goes on and the value is installed.
SetAfterPick(e, key, value, expire_at, old, victim) ==
  LET e1 == IF victim \in DOMAIN e.data
            THEN RemoveMemory([e EXCEPT !.data = MapRemove(@, victim),
                                        !.exp = CancelExpiration(@, victim)],
                              victim, e.data[victim])
            ELSE e
  IN {IF o.hung THEN [e |-> o.e, status |-> "hung"]
      ELSE [e |-> SetInstall(o.e, key, value, expire_at, old), status |-> "ok"]
      : o \in EvictLoop(e1)}

\* StorageEngine::get: [e, value], value = NoOld for None
EngineGet(e, key) ==
  IF key \in DOMAIN e.data
  THEN [e |-> IF IsEnabled(e) THEN RecordRead(e, key) ELSE e, value |-> e.data[key]]
  ELSE [e |-> e, value |-> NoOld]

\* StorageEngine::remove: [e, res]
EngineRemove(e, key) ==
  LET e1 == IF key \in DOMAIN e.data /\ IsEnabled(e)
            THEN RemoveMemory(e, key, e.data[key])
            ELSE e
  IN [e |-> [e1 EXCEPT !.exp = CancelExpiration(@, key), !.data = MapRemove(@, key)],
      res |-> key \in DOMAIN e.data]

EngineExists(e, key) == key \in DOMAIN e.data

EngineLen(e) == Cardinality(DOMAIN e.data)

EngineFlush(e) == [e EXCEPT !.data = <<>>, !.exp = EmptySchedule]

\* Instant + Duration: checked_add, None on overflow.  A duration is kept as
\* the signed representative of its u64 seconds modulo 2^64, so a negative d
\* stands for 2^64 + d >= 2^63, which no Instant (i64 seconds) can take.
InstantAdd(t, d) == IF d < 0 THEN None ELSE t + d

\* set_expiry that stores the deadline but never schedules it
EngineSetExpiry_NoSchedule(e, key, duration, t) ==
  IF key \in DOMAIN e.data
  THEN [e |-> [e EXCEPT !.data[key].expire_at = t + duration], res |-> TRUE,
        panicked |-> FALSE]
  ELSE [e |-> e, res |-> FALSE, panicked |-> FALSE]

\* a set_expiry that counts the duration from the start of the clock
EngineSetExpiry_FromZero(e, key, duration, t) ==
  IF key \in DOMAIN e.data
  THEN IF InstantAdd(0, duration) = None
       THEN [e |-> e, res |-> FALSE, panicked |-> TRUE]
       ELSE [e |-> [e EXCEPT !.data[key].expire_at = InstantAdd(0, duration),
                             !.exp = ScheduleExpiration(@, key, InstantAdd(0, duration))],
             res |-> TRUE, panicked |-> FALSE]
  ELSE [e |-> e, res |-> FALSE, panicked |-> FALSE]

\* StorageEngine::set_expiry at clock t; Instant::now() + duration panics when
\* the sum overflows, and the entry guard is dropped by the unwinding
EngineSetExpiry(e, key, duration, t) ==
  IF key \in DOMAIN e.data
  THEN IF InstantAdd(t, duration) = None
       THEN [e |-> e, res |-> FALSE, panicked |-> TRUE]
       ELSE [e |-> [e EXCEPT !.data[key].expire_at = InstantAdd(t, duration),
                             !.exp = ScheduleExpiration(@, key, InstantAdd(t, duration))],
             res |-> TRUE, panicked |-> FALSE]
  ELSE [e |-> e, res |-> FALSE, panicked |-> FALSE]

\* a persist that clears the deadline and leaves the schedule as it was
EnginePersist_KeepSchedule(e, key) ==
  IF key \in DOMAIN e.data
  THEN [e |-> [e EXCEPT !.data[key].expire_at = None], res |-> TRUE]
  ELSE [e |-> e, res |-> FALSE]

\* StorageEngine::persist
EnginePersist(e, key) ==
  IF key \in DOMAIN e.data
  THEN [e |-> [e EXCEPT !.data[key].expire_at = None,
                        !.exp = CancelExpiration(@, key)],
        res |-> TRUE]
  ELSE [e |-> e, res |-> FALSE]

\* a ttl_query that gives the deadline instead of the time left to it
TtlQuery_Deadline(e, key, t) ==
  IF key \notin DOMAIN e.data THEN -2
  ELSE IF e.data[key].expire_at = None THEN -1
  ELSE e.data[key].expire_at

\* StorageEngine::ttl_query at clock t (saturating_duration_since, whole
\* seconds; the clock counts seconds)
TtlQuery(e, key, t) ==
  IF key \notin DOMAIN e.data THEN -2
  ELSE IF e.data[key].expire_at = None THEN -1
  ELSE IF e.data[key].expire_at >= t THEN e.data[key].expire_at - t
  ELSE 0

\* ------------------------------------------------------------ client (lib.rs)
\* Results returned to the caller.  Panicked and Hung are not values: the call
\* panicked, or never returned.
VNull == [tag |-> "Null"]
VOkay == [tag |-> "Okay"]
VString(b) == [tag |-> "String", str |-> b]
VInt(n) == [tag |-> "Int", int |-> n]
VBool(b) == [tag |-> "Bool", bool |-> b]
VArray(S) == [tag |-> "Array", members |-> S]
VList(l) == [tag |-> "Array", items |-> l]
Err(x) == [tag |-> "Err", err |-> x]
Panicked == [tag |-> "Panicked"]
Hung == [tag |-> "Hung"]

\* what the caller of a command that ends in storage.set gets: res when set
\* returned (set returns () also when it silently rejected the write)
AfterSet(outs, res) ==
  {[e |-> o.e,
    res |-> CASE o.status \in {"ok", "rejected"} -> res
              [] o.status = "panic" -> Panicked
              [] o.status = "hung" -> Hung] : o \in outs}

\* the is_expired() branch of get / hget / llen / smembers: remove, absent result
LazyPurge(e, key, absent) == {[e |-> EngineRemove(e, key).e, res |-> absent]}

\* Client::get from the return of storage.get (value) on, run on engine e
GetWith(e, key, t, value) ==
  IF value = NoOld THEN {[e |-> e, res |-> VNull]}
  ELSE IF IsExpired(value, t) THEN LazyPurge(e, key, VNull)
  ELSE IF value.data.kind = "String" THEN {[e |-> e, res |-> VString(value.data.val)]}
  ELSE {[e |-> e, res |-> Err("WrongType")]}

ClientGet(e, key, t) ==
  LET g == EngineGet(e, key) IN GetWith(g.e, key, t, g.value)

ClientSet(e, key, val) == AfterSet(EngineSet(e, key, StringData(val), None), VOkay)

ClientDel(e, key) ==
  LET r == EngineRemove(e, key)
  IN {[e |-> r.e, res |-> VInt(IF r.res THEN 1 ELSE 0)]}

ClientExists(e, key) == {[e |-> e, res |-> VBool(EngineExists(e, key))]}

\* Client::expire: Duration::from_secs(seconds as u64), the cast keeping the
\* bits of a negative i64
ClientExpire(e, key, seconds, t) ==
  LET r == EngineSetExpiry(e, key, seconds, t)
  IN {[e |-> r.e, res |-> IF r.panicked THEN Panicked ELSE VBool(r.res)]}

ClientTtl(e, key, t) == {[e |-> e, res |-> VInt(TtlQuery(e, key, t))]}

ClientPersist(e, key) ==
  LET r == EnginePersist(e, key)
  IN {[e |-> r.e, res |-> VBool(r.res)]}

ClientDbsize(e) == {[e |-> e, res |-> VInt(EngineLen(e))]}

ClientFlushdb(e) == {[e |-> EngineFlush(e), res |-> VOkay]}

\* an hset that replaces a value of another kind by a new hash
HsetWith_Overwrite(e, key, field, value, val) ==
  IF val = NoOld \/ val.data.kind # "Hash"
  THEN AfterSet(EngineSet(e, key, HashData(MapPut(<<>>, field, value)), None), VInt(1))
  ELSE AfterSet(EngineSet(e, key, HashData(MapPut(val.data.val, field, value)),
                          val.expire_at),
                VInt(IF field \in DOMAIN val.data.val THEN 0 ELSE 1))

\* an hset that leaves the value of a field that exists as it is
HsetWith_KeepOld(e, key, field, value, val) ==
  IF val = NoOld
  THEN AfterSet(EngineSet(e, key, HashData(MapPut(<<>>, field, value)), None), VInt(1))
  ELSE IF val.data.kind = "Hash"
  THEN IF field \in DOMAIN val.data.val
       THEN {[e |-> e, res |-> VInt(0)]}
       ELSE AfterSet(EngineSet(e, key, HashData(MapPut(val.data.val, field, value)),
                               val.expire_at),
                     VInt(1))
  ELSE {[e |-> e, res |-> Err("WrongType")]}

\* Client::hset from the return of storage.get (val) on
HsetWith(e, key, field, value, val) ==
  IF val = NoOld
  THEN AfterSet(EngineSet(e, key, HashData(MapPut(<<>>, field, value)), None), VInt(1))
  ELSE IF val.data.kind = "Hash"
  THEN AfterSet(EngineSet(e, key, HashData(MapPut(val.data.val, field, value)),
                          val.expire_at),
                VInt(IF field \in DOMAIN val.data.val THEN 0 ELSE 1))
  ELSE {[e |-> e, res |-> Err("WrongType")]}

ClientHset(e, key, field, value) ==
  LET g == EngineGet(e, key) IN HsetWith(g.e, key, field, value, g.value)

ClientHget(e, key, field, t) ==
  LET g == EngineGet(e, key)
  IN IF g.value = NoOld THEN {[e |-> g.e, res |-> VNull]}
     ELSE IF IsExpired(g.value, t) THEN LazyPurge(g.e, key, VNull)
     ELSE IF g.value.data.kind = "Hash"
     THEN {[e |-> g.e,
            res |-> IF field \in DOMAIN g.value.data.val
                    THEN VString(g.value.data.val[field]) ELSE VNull]}
     ELSE {[e |-> g.e, res |-> Err("WrongType")]}

\* the fields and values of h alternating, the fields in the order fs
RECURSIVE Alternate(_, _)
Alternate(h, fs) ==
  IF fs = <<>> THEN <<>> ELSE <<Head(fs), h[Head(fs)]>> \o Alternate(h, Tail(fs))

\* Client::hgetall; the map is iterated in some order
ClientHgetall(e, key, t) ==
  LET g == EngineGet(e, key)
  IN IF g.value = NoOld THEN {[e |-> g.e, res |-> VList(<<>>)]}
     ELSE IF IsExpired(g.value, t) THEN LazyPurge(g.e, key, VList(<<>>))
     ELSE IF g.value.data.kind = "Hash"
     THEN {[e |-> g.e, res |-> VList(Alternate(g.value.data.val, fs))]
           : fs \in Orderings(DOMAIN g.value.data.val)}
     ELSE {[e |-> g.e, res |-> Err("WrongType")]}

\* an hdel that stores the shrunken hash without the deadline of the old one
ClientHdel_DropDeadline(e, key, field) ==
  LET g == EngineGet(e, key)
  IN IF g.value = NoOld THEN {[e |-> g.e, res |-> VInt(0)]}
     ELSE IF g.value.data.kind = "Hash"
     THEN IF field \in DOMAIN g.value.data.val
          THEN AfterSet(EngineSet(g.e, key,
                                  HashData(MapRemove(g.value.data.val, field)),
                                  None),
                        VInt(1))
          ELSE {[e |-> g.e, res |-> VInt(0)]}
     ELSE {[e |-> g.e, res |-> Err("WrongType")]}

\* Client::hdel
ClientHdel(e, key, field) ==
  LET g == EngineGet(e, key)
  IN IF g.value = NoOld THEN {[e |-> g.e, res |-> VInt(0)]}
     ELSE IF g.value.data.kind = "Hash"
     THEN IF field \in DOMAIN g.value.data.val
          THEN AfterSet(EngineSet(g.e, key,
                                  HashData(MapRemove(g.value.data.val, field)),
                                  g.value.expire_at),
                        VInt(1))
          ELSE {[e |-> g.e, res |-> VInt(0)]}
     ELSE {[e |-> g.e, res |-> Err("WrongType")]}

\* a push that always adds at the back
PushWith_Back(e, key, value, front, val) ==
  IF val = NoOld
  THEN AfterSet(EngineSet(e, key, ListData(<<value>>), None), VInt(1))
  ELSE IF val.data.kind = "List"
  THEN LET l == Append(val.data.val, value)
       IN AfterSet(EngineSet(e, key, ListData(l), val.expire_at), VInt(Len(l)))
  ELSE {[e |-> e, res |-> Err("WrongType")]}

\* lpush (front = TRUE) and rpush (front = FALSE)
PushWith(e, key, value, front, val) ==
  IF val = NoOld
  THEN AfterSet(EngineSet(e, key, ListData(<<value>>), None), VInt(1))
  ELSE IF val.data.kind = "List"
  THEN LET l == IF front THEN <<value>> \o val.data.val ELSE Append(val.data.val, value)
       IN AfterSet(EngineSet(e, key, ListData(l), val.expire_at), VInt(Len(l)))
  ELSE {[e |-> e, res |-> Err("WrongType")]}

ClientPush(e, key, value, front) ==
  LET g == EngineGet(e, key) IN PushWith(g.e, key, value, front, g.value)

ClientLlen(e, key, t) ==
  LET g == EngineGet(e, key)
  IN IF g.value = NoOld THEN {[e |-> g.e, res |-> VInt(0)]}
     ELSE IF IsExpired(g.value, t) THEN LazyPurge(g.e, key, VInt(0))
     ELSE IF g.value.data.kind = "List"
     THEN {[e |-> g.e, res |-> VInt(Len(g.value.data.val))]}
     ELSE {[e |-> g.e, res |-> Err("WrongType")]}

\* an sadd that stores a set of the new member alone
SaddWith_Fresh(e, key, member, val) ==
  IF val = NoOld
  THEN AfterSet(EngineSet(e, key, SetData({member}), None), VInt(1))
  ELSE IF val.data.kind = "Set"
  THEN AfterSet(EngineSet(e, key, SetData({member}), val.expire_at),
                VInt(IF member \in val.data.val THEN 0 ELSE 1))
  ELSE {[e |-> e, res |-> Err("WrongType")]}

\* Client::sadd from the return of storage.get (val) on
SaddWith(e, key, member, val) ==
  IF val = NoOld
  THEN AfterSet(EngineSet(e, key, SetData({member}), None), VInt(1))
  ELSE IF val.data.kind = "Set"
  THEN AfterSet(EngineSet(e, key, SetData(val.data.val \cup {member}), val.expire_at),
                VInt(IF member \in val.data.val THEN 0 ELSE 1))
  ELSE {[e |-> e, res |-> Err("WrongType")]}

ClientSadd(e, key, member) ==
  LET g == EngineGet(e, key) IN SaddWith(g.e, key, member, g.value)

ClientSmembers(e, key, t) ==
  LET g == EngineGet(e, key)
  IN IF g.value = NoOld THEN {[e |-> g.e, res |-> VArray({})]}
     ELSE IF IsExpired(g.value, t) THEN LazyPurge(g.e, key, VArray({}))
     ELSE IF g.value.data.kind = "Set"
     THEN {[e |-> g.e, res |-> VArray(g.value.data.val)]}
     ELSE {[e |-> g.e, res |-> Err("WrongType")]}

\* -------------------------------------------------------------- conversions
\* Byte strings are sequences of bytes; "ff" is a byte that no UTF-8 text
\* holds.  i64 is I64_MIN..I64_MAX and u64 is 0..U64_MAX.
I64_MAX == 2 ^ (IntWidth - 1) - 1
I64_MIN == 0 - 2 ^ (IntWidth - 1)
U64_MAX == 2 ^ IntWidth - 1

\* `n as i64` of a u64 and `n as u64` of an i64: the same bits
AsI64(n) == IF n > I64_MAX THEN n - 2 ^ IntWidth ELSE n

AsU64(n) == IF n < 0 THEN n + 2 ^ IntWidth ELSE n

Utf8Chars == {"a", "0", "1", "-"}
Bytes == Utf8Chars \cup {"ff"}

SeqsUpTo(S, n) == UNION {[1..m -> S] : m \in 0..n}

Digits == <<"0", "1", "2", "3", "4", "5", "6", "7", "8", "9">>

DigitValue(c) == (CHOOSE i \in DOMAIN Digits : Digits[i] = c) - 1

\* n.to_string() of a number n >= 0
RECURSIVE NatToString(_)
NatToString(n) ==
  IF n < 10 THEN <<Digits[n + 1]>>
  ELSE NatToString(n \div 10) \o <<Digits[(n % 10) + 1]>>

\* i64::to_string
I64ToString(n) == IF n < 0 THEN <<"-">> \o NatToString(0 - n) ELSE NatToString(n)

RECURSIVE DigitsValue(_)
DigitsValue(s) ==
  IF s = <<>> THEN 0
  ELSE 10 * DigitsValue(SubSeq(s, 1, Len(s) - 1)) + DigitValue(s[Len(s)])

Ok(v) == [tag |-> "Ok", v |-> v]

\* str::parse::<i64>: an optional sign and at least one digit, nothing else,
\* and a value an i64 holds
ParseI64(s) ==
  LET signed == s # <<>> /\ s[1] \in {"-", "+"}
      ds == IF signed THEN Tail(s) ELSE s
      n == IF signed /\ s[1] = "-" THEN 0 - DigitsValue(ds) ELSE DigitsValue(ds)
  IN IF ds = <<>> \/ \E i \in DOMAIN ds : ds[i] \notin Range(Digits)
     THEN Err("ParseError")
     ELSE IF n < I64_MIN \/ n > I64_MAX THEN Err("ParseError")
     ELSE Ok(n)

\* String::from_utf8
FromUtf8(s) == IF "ff" \in Range(s) THEN Err("ParseError") ELSE Ok(s)

\* the values the conversions are given: a type and a string, an integer or a
\* bool
Primitives ==
  {[ty |-> "String", str |-> b] : b \in SeqsUpTo(Utf8Chars, MaxStrLen)}
    \cup {[ty |-> "Vec<u8>", str |-> b] : b \in SeqsUpTo(Bytes, MaxStrLen)}
    \cup {[ty |-> "i64", int |-> n] : n \in I64_MIN..I64_MAX}
    \cup {[ty |-> "u64", int |-> n] : n \in 0..U64_MAX}
    \cup {[ty |-> "bool", bool |-> b] : b \in BOOLEAN}

ValueOf(P) ==
  CASE P.ty \in {"String", "Vec<u8>"} -> P.str
    [] P.ty \in {"i64", "u64"} -> P.int
    [] P.ty = "bool" -> P.bool

\* ToRedisArgs::to_redis_args of types/to_redis_args.rs and of lib.rs (the
\* same for these types): a Vec of one Value
ToRedisArgs(P) ==
  CASE P.ty \in {"String", "Vec<u8>"} -> <<VString(P.str)>>
    [] P.ty = "i64" -> <<VInt(P.int)>>
    [] P.ty = "u64" -> <<VInt(AsI64(P.int))>>
    [] P.ty = "bool" -> <<VBool(P.bool)>>

\* FromRedisValue::from_redis_value of types/from_redis_value.rs for i64
FromRedisValueI64(v) ==
  CASE v.tag = "Int" -> Ok(v.int)
    [] v.tag = "String" ->
         IF FromUtf8(v.str).tag = "Err" THEN Err("ParseError") ELSE ParseI64(v.str)
    [] v.tag = "Bool" -> Ok(IF v.bool THEN 1 ELSE 0)
    [] OTHER -> Err("ParseError")

\* FromRedisValue::from_redis_value of types/from_redis_value.rs, as type ty
FromRedisValue(ty, v) ==
  CASE ty = "String" ->
         (CASE v.tag = "String" -> FromUtf8(v.str)
            [] v.tag = "Int" -> Ok(I64ToString(v.int))
            [] v.tag = "Okay" -> Ok(<<"O", "K">>)
            [] v.tag = "Bool" ->
                 Ok(IF v.bool THEN <<"t", "r", "u", "e">> ELSE <<"f", "a", "l", "s", "e">>)
            [] OTHER -> Err("ParseError"))
    [] ty = "Vec<u8>" ->
         (CASE v.tag = "String" -> Ok(v.str)
            [] OTHER -> Err("ParseError"))
    [] ty = "i64" -> FromRedisValueI64(v)
    [] ty = "u64" ->
         LET n == FromRedisValueI64(v)
         IN IF n.tag = "Err" THEN n ELSE Ok(AsU64(n.v))
    [] ty = "bool" ->
         (CASE v.tag = "Bool" -> Ok(v.bool)
            [] v.tag = "Int" -> Ok(v.int # 0)
            [] v.tag = "String" -> Ok(v.str # <<>>)
            [] v.tag = "Null" -> Ok(FALSE)
            [] OTHER -> Err("ParseError"))

\* the types lib.rs implements FromRedisValue for (of those modelled)
LibTypes == {"String", "Vec<u8>", "i64", "bool"}

\* the decoders of types/from_redis_value.rs in the place of those of lib.rs:
\* as a bool, every string that is not empty is true
LibFromRedisValue_NonEmpty(ty, v) ==
  IF v.tag = "Err" THEN v ELSE FromRedisValue(ty, v)

\* FromRedisValue::from_redis_value of lib.rs, as type ty; a result that is not
\* a Value (an error of the command) is passed on
LibFromRedisValue(ty, v) ==
  CASE v.tag = "Err" -> v
    [] ty = "String" ->
         (CASE v.tag = "String" -> FromUtf8(v.str)
            [] v.tag = "Int" -> Ok(I64ToString(v.int))
            [] v.tag = "Null" -> Ok(<<>>)
            [] OTHER -> Err("ParseError"))
    [] ty = "Vec<u8>" ->
         (CASE v.tag = "String" -> Ok(v.str)
            [] OTHER -> Err("ParseError"))
    [] ty = "i64" -> FromRedisValueI64(v)
    [] ty = "bool" ->
         (CASE v.tag = "Bool" -> Ok(v.bool)
            [] v.tag = "Int" -> Ok(v.int # 0)
            [] v.tag = "String" ->
                 IF FromUtf8(v.str).tag = "Err" THEN Err("ParseError")
                 ELSE Ok(v.str = <<"1">> \/ v.str = <<"t", "r", "u", "e">>)
            [] v.tag = "Null" -> Ok(FALSE)
            [] OTHER -> Err("ParseError"))

\* Client::value_to_vec: the bytes of the first argument that is a string, an
\* integer or a bool
RECURSIVE ValueToVec(_)
ValueToVec(args) ==
  IF args = <<>> THEN <<>>
  ELSE CASE Head(args).tag = "String" -> Head(args).str
         [] Head(args).tag = "Int" -> I64ToString(Head(args).int)
         [] Head(args).tag = "Bool" -> IF Head(args).bool THEN <<"1">> ELSE <<"0">>
         [] OTHER -> ValueToVec(Tail(args))

\* ------------------------------------------------------------------- state
VARIABLES
  data,       \* StorageEngine.data: key -> StoredValue, on the keys present
  exp,        \* ExpirationManager.expirations
  total,      \* MemoryTracker.total_memory
  lru,        \* MemoryTracker.lru_order
  cnt,        \* MemoryTracker.access_counts
  maxmemory,  \* StorageConfig.maxmemory
  policy,     \* StorageConfig.maxmemory_policy
  now,        \* the clock (Instant::now())
  sweeper,    \* the spawned sweeper tasks: pc, and the locals now and keys_to_remove
  last,       \* the last command a caller ran, and what it got back
  accessed,   \* history: under an LRU policy, the keys present, least recently
              \* accessed (credited by a write, read by GET) first
  credits,    \* history: under an LFU policy, for each key credited and not
              \* debited since, its later credits and reads
  thr,        \* the callers running commands concurrently: each one's program,
              \* position, the value its storage.get returned (or, for a
              \* program of lock steps, the locks it holds) and its results
  snap        \* history: the engine when the concurrent callers started

vars == <<data, exp, total, lru, cnt, maxmemory, policy, now, sweeper, last, accessed,
          credits, thr, snap>>

Engine ==
  [data |-> data, exp |-> exp, total |-> total, lru |-> lru, cnt |-> cnt,
   maxmemory |-> maxmemory, policy |-> policy]

Commit(e) ==
  /\ data' = e.data
  /\ exp' = e.exp
  /\ total' = e.total
  /\ lru' = e.lru
  /\ cnt' = e.cnt
  /\ maxmemory' = e.maxmemory
  /\ policy' = e.policy

\* the limits that keep the state space finite
Bounded(e) ==
  /\ e.total \in (0 - MaxTotal)..MaxTotal
  /\ \A k \in DOMAIN e.cnt : e.cnt[k] <= MaxCount
  /\ \A k \in DOMAIN e.data :
       e.data[k].data.kind = "List" => Len(e.data[k].data.val) <= MaxListLen

NoArg == [none |-> TRUE]

\* the commands that end in a credit of the key by storage.set, and GET
CreditOps == {"SET", "HSET", "HDEL", "LPUSH", "RPUSH", "SADD", "GET"}

\* the history of accesses after a command that left the engine as e and gave
\* res to its caller
Touched(acc, e, op, key, res) ==
  LET present(k) == k \in DOMAIN e.data
      kept == SelectSeq(acc, present)
  IN IF ~IsLruPolicy(e.policy) THEN acc
     ELSE IF op \in CreditOps /\ key \in DOMAIN e.data
             /\ res.tag \notin {"Err", "Panicked", "Hung"}
     THEN Append(SeqRetainNe(kept, key), key)
     ELSE kept

\* the commands that begin with storage.get, which records a read of a key
\* that is present
ReadOps ==
  {"GET", "HSET", "HGET", "HGETALL", "HDEL", "LPUSH", "RPUSH", "LLEN", "SADD", "SMEMBERS"}

\* the command ended in a storage.set that installed its value
Credited(op, res) ==
  \/ op \in {"SET", "HSET", "LPUSH", "RPUSH", "SADD"}
       /\ res.tag \notin {"Err", "Panicked", "Hung"}
  \/ op = "HDEL" /\ res = VInt(1)

\* the history of credits after the storage.get of a command on engine e
CountRead(cr, e, op, key) ==
  IF IsEnabled(e) /\ IsLfuPolicy(e.policy) /\ op \in ReadOps /\ key \in DOMAIN e.data
  THEN MapPut(cr, key, IF key \in DOMAIN cr THEN cr[key] + 1 ELSE 0)
  ELSE cr

\* the history of credits after the rest of a command that took the engine
\* from e0 to e1: the keys that left the keyspace were debited; a key written
\* over was debited and credited again; a key credited anew starts at 0
CountWrite(cr, e0, e1, op, key, res) ==
  IF ~(IsEnabled(e1) /\ IsLfuPolicy(e1.policy)) THEN cr
  ELSE LET left == DOMAIN e0.data \ DOMAIN e1.data
           cr1 == [k \in (DOMAIN cr) \ left |-> cr[k]]
       IN IF Credited(op, res) /\ key \in DOMAIN e1.data
          THEN MapPut(cr1, key,
                      IF key \notin DOMAIN e0.data /\ key \in DOMAIN cr1
                      THEN cr1[key] + 1 ELSE 0)
          ELSE cr1

Counted(cr, e0, e1, op, key, res) ==
  CountWrite(CountRead(cr, e0, op, key), e0, e1, op, key, res)

\* a caller runs a command to completion
Call(op, key, arg, outs) ==
  \E o \in outs :
    /\ Bounded(o.e)
    /\ Commit(o.e)
    /\ last' = [op |-> op, key |-> key, arg |-> arg, res |-> o.res]
    /\ accessed' = Touched(accessed, o.e, op, key, o.res)
    /\ credits' = Counted(credits, Engine, o.e, op, key, o.res)
    /\ UNCHANGED <<now, sweeper, thr, snap>>

\* budgets given to with_config / ClientBuilder::maxmemory
Budgets == {0, 106}

NoSnap == [none |-> TRUE]

\* StorageEngine::new (no budget, the default policy) or with_config
InitEngine(m, p) ==
  /\ data = <<>>
  /\ exp = EmptySchedule
  /\ total = 0
  /\ lru = <<>>
  /\ cnt = <<>>
  /\ maxmemory = m
  /\ policy = p
  /\ now = 0
  /\ sweeper = <<>>
  /\ last = [op |-> "new", key |-> NoKey, arg |-> NoArg, res |-> VOkay]
  /\ accessed = <<>>
  /\ credits = <<>>
  /\ thr = <<>>
  /\ snap = NoSnap

Init ==
  \/ InitEngine(None, "NoEviction")
  \/ \E m \in Budgets, p \in Policies : InitEngine(m, p)

\* ----------------------------------------------------------------- commands
\* Each command is run by a caller on a key of K (and a value of V, a
\* duration of D).
Get(K) == \E k \in K : Call("GET", k, NoArg, ClientGet(Engine, k, now))

Set(K, V) ==
  \E k \in K, v \in V : Call("SET", k, [val |-> v], ClientSet(Engine, k, v))

Del(K) == \E k \in K : Call("DEL", k, NoArg, ClientDel(Engine, k))

Exists(K) == \E k \in K : Call("EXISTS", k, NoArg, ClientExists(Engine, k))

Expire(K, D) ==
  \E k \in K, d \in D :
    Call("EXPIRE", k, [seconds |-> d], ClientExpire(Engine, k, d, now))

Ttl(K) == \E k \in K : Call("TTL", k, NoArg, ClientTtl(Engine, k, now))

Persist(K) == \E k \in K : Call("PERSIST", k, NoArg, ClientPersist(Engine, k))

Dbsize == Call("DBSIZE", NoKey, NoArg, ClientDbsize(Engine))

Flushdb == Call("FLUSHDB", NoKey, NoArg, ClientFlushdb(Engine))

\* StorageEngine::set_maxmemory / set_maxmemory_policy on a running engine
SetMaxmemory(M) ==
  \E m \in M :
    Call("set_maxmemory", NoKey, [maxmemory |-> m],
         {[e |-> [Engine EXCEPT !.maxmemory = m], res |-> VOkay]})

SetMaxmemoryPolicy(P) ==
  \E p \in P :
    Call("set_maxmemory_policy", NoKey, [policy |-> p],
         {[e |-> [Engine EXCEPT !.policy = p], res |-> VOkay]})

\* -------------------------------------------------------- concurrent callers
\* A command is [op, key, arg].  Client::get, sadd, lpush and hset call
\* storage.get, compute on the value it returned, and then call storage.set or
\* storage.remove; nothing holds the key between the two calls.  Client::set
\* and Client::del make one call.
Cmd(op, key, arg) == [op |-> op, key |-> key, arg |-> arg]

ReadsFirst(c) == c.op \in {"GET", "SADD", "LPUSH", "HSET"}

\* the whole command, run alone on engine e
ClientRun(c, e, t) ==
  CASE c.op = "GET" -> ClientGet(e, c.key, t)
    [] c.op = "SET" -> ClientSet(e, c.key, c.arg.val)
    [] c.op = "DEL" -> ClientDel(e, c.key)
    [] c.op = "SADD" -> ClientSadd(e, c.key, c.arg.member)
    [] c.op = "LPUSH" -> ClientPush(e, c.key, c.arg.value, TRUE)
    [] c.op = "HSET" -> ClientHset(e, c.key, c.arg.field, c.arg.value)
    [] c.op = "HGET" -> ClientHget(e, c.key, c.arg.field, t)
    [] c.op = "HGETALL" -> ClientHgetall(e, c.key, t)
    [] c.op = "HDEL" -> ClientHdel(e, c.key, c.arg.field)
    [] c.op = "RPUSH" -> ClientPush(e, c.key, c.arg.value, FALSE)
    [] c.op = "LLEN" -> ClientLlen(e, c.key, t)
    [] c.op = "SMEMBERS" -> ClientSmembers(e, c.key, t)
    [] c.op = "EXPIRE" -> ClientExpire(e, c.key, c.arg.seconds, t)
    [] c.op = "PERSIST" -> ClientPersist(e, c.key)

\* the command from the return of its storage.get (val) on
ClientWith(c, e, t, val) ==
  CASE c.op = "GET" -> GetWith(e, c.key, t, val)
    [] c.op = "SADD" -> SaddWith(e, c.key, c.arg.member, val)
    [] c.op = "LPUSH" -> PushWith(e, c.key, c.arg.value, TRUE, val)
    [] c.op = "HSET" -> HsetWith(e, c.key, c.arg.field, c.arg.value, val)

\* a caller runs a whole command while no concurrent callers are running
Alone(C) ==
  /\ thr = <<>>
  /\ \E c \in C : Call(c.op, c.key, c.arg, ClientRun(c, Engine, now))

\* two callers (tasks holding Clients made by from_storage on one engine)
\* start their programs
Fork(P) ==
  /\ thr = <<>>
  /\ \E p1 \in P, p2 \in P :
       thr' = [t \in 1..2 |->
                 [prog |-> IF t = 1 THEN p1 ELSE p2, i |-> 1, pc |-> "call",
                  val |-> NoOld, res |-> <<>>]]
  /\ snap' = Engine
  /\ UNCHANGED <<data, exp, total, lru, cnt, maxmemory, policy, now, sweeper, last,
                 accessed, credits>>

Running(t) == thr[t].i <= Len(thr[t].prog)

Current(t) == thr[t].prog[thr[t].i]

\* the caller's storage.get returns
StepGet(t) ==
  /\ Running(t) /\ thr[t].pc = "call" /\ ReadsFirst(Current(t))
  /\ LET g == EngineGet(Engine, Current(t).key)
     IN /\ Commit(g.e)
        /\ thr' = [thr EXCEPT ![t].pc = "got", ![t].val = g.value]
        /\ credits' = CountRead(credits, Engine, Current(t).op, Current(t).key)
  /\ UNCHANGED <<now, sweeper, last, accessed, snap>>

\* the caller's SET is in the eviction loop of storage.set and its evict_one
\* returns a key; the data.remove of that key is the caller's next step
StepPick(t) ==
  /\ Running(t) /\ thr[t].pc = "call" /\ Current(t).op = "SET"
  /\ IsEnabled(Engine) /\ ~ShouldRejectWrite(Engine)
  /\ LET old == IF Current(t).key \in DOMAIN data THEN data[Current(t).key] ELSE NoOld
     IN /\ Len(Current(t).arg.val) # (IF old = NoOld THEN 0 ELSE EstimatedSize(old.data))
        /\ CheckEvictionNeeded(Engine)
        /\ \E o \in EvictOne(Engine) :
             /\ o.key # NoKey
             /\ Commit(o.e)
             /\ thr' = [thr EXCEPT ![t].pc = "picked",
                                    ![t].val = [old |-> old, victim |-> o.key]]
  /\ UNCHANGED <<now, sweeper, last, accessed, credits, snap>>

Pick == \E t \in DOMAIN thr : StepPick(t)

\* the caller's SET or DEL, on an engine without a budget, has made its call of
\* cancel_expiration (set: when the entry it found has a deadline; remove:
\* always); its data.insert or data.remove is the caller's next step
StepCancel(t) ==
  /\ Running(t) /\ thr[t].pc = "call" /\ Current(t).op \in {"SET", "DEL"}
  /\ ~IsEnabled(Engine)
  /\ exp' = IF Current(t).op = "DEL"
                \/ (Current(t).key \in DOMAIN data
                      /\ data[Current(t).key].expire_at # None)
             THEN CancelExpiration(exp, Current(t).key)
             ELSE exp
  /\ thr' = [thr EXCEPT ![t].pc = "cancelled"]
  /\ UNCHANGED <<data, total, lru, cnt, maxmemory, policy, now, sweeper, last,
                 accessed, credits, snap>>

Cancel == \E t \in DOMAIN thr : StepCancel(t)

\* the rest of a SET or DEL whose cancel_expiration has returned: data.insert
\* of the new entry (SET is given no deadline), or data.remove
AfterCancel(c, e) ==
  IF c.op = "SET"
  THEN {[e |-> [e EXCEPT !.data = MapPut(@, c.key,
                                         StoredValue(StringData(c.arg.val), None))],
         res |-> VOkay]}
  ELSE {[e |-> [e EXCEPT !.data = MapRemove(@, c.key)],
         res |-> VInt(IF c.key \in DOMAIN e.data THEN 1 ELSE 0)]}

\* the caller's DEL, on an engine with a budget, has run the first statement
\* of storage.remove: under the Ref of data.get (a shared lock of the shard),
\* remove_memory of the entry it found; cancel_expiration and data.remove are
\* the caller's next step
StepDebit(t) ==
  /\ Running(t) /\ thr[t].pc = "call" /\ Current(t).op = "DEL"
  /\ IsEnabled(Engine)
  /\ Commit(IF Current(t).key \in DOMAIN data
            THEN RemoveMemory(Engine, Current(t).key, data[Current(t).key])
            ELSE Engine)
  /\ thr' = [thr EXCEPT ![t].pc = "debited"]
  /\ UNCHANGED <<now, sweeper, last, accessed, credits, snap>>

Debit == \E t \in DOMAIN thr : StepDebit(t)

\* the rest of a DEL whose remove_memory has returned: cancel_expiration and
\* data.remove(key).is_some()
AfterDebit(c, e) ==
  {[e |-> [e EXCEPT !.exp = CancelExpiration(@, c.key), !.data = MapRemove(@, c.key)],
    res |-> VInt(IF c.key \in DOMAIN e.data THEN 1 ELSE 0)]}

\* the caller runs its command to the end: the rest of a command that read
\* first, the rest of a SET whose evict_one has returned, the rest of a SET or
\* DEL whose cancel_expiration or remove_memory has returned, or the one call
\* of SET, DEL, EXPIRE and PERSIST
StepEnd(t) ==
  /\ Running(t)
  /\ thr[t].pc \in {"got", "picked", "cancelled", "debited"} \/ ~ReadsFirst(Current(t))
  /\ \E o \in (CASE thr[t].pc = "got" ->
                     ClientWith(Current(t), Engine, now, thr[t].val)
                  [] thr[t].pc = "picked" ->
                     AfterSet(SetAfterPick(Engine, Current(t).key,
                                           StringData(Current(t).arg.val), None,
                                           thr[t].val.old, thr[t].val.victim),
                              VOkay)
                  [] thr[t].pc = "cancelled" -> AfterCancel(Current(t), Engine)
                  [] thr[t].pc = "debited" -> AfterDebit(Current(t), Engine)
                  [] OTHER -> ClientRun(Current(t), Engine, now)) :
       /\ Commit(o.e)
       /\ thr' = [thr EXCEPT ![t].pc = "call", ![t].val = NoOld, ![t].i = @ + 1,
                              ![t].res = Append(@, o.res)]
       /\ last' = [op |-> Current(t).op, key |-> Current(t).key,
                   arg |-> Current(t).arg, res |-> o.res]
       /\ accessed' = Touched(accessed, o.e, Current(t).op, Current(t).key, o.res)
       /\ credits' = IF thr[t].pc = "got"
                     THEN CountWrite(credits, Engine, o.e, Current(t).op,
                                     Current(t).key, o.res)
                     ELSE Counted(credits, Engine, o.e, Current(t).op,
                                  Current(t).key, o.res)
  /\ UNCHANGED <<now, sweeper, snap>>

Step == \E t \in DOMAIN thr : StepGet(t) \/ StepEnd(t)

\* -------------------------------------------------------------------- locks
\* The locks an operation takes, as a program of lock and unlock steps.  shard
\* is the DashMap shard of the key (an RwLock); config, lru and counts are the
\* tokio RwLocks of the MemoryTracker (the accountant); schedule is the
\* std::sync::Mutex of the ExpirationManager.
Lock(l, mode) == Cmd("lock", l, [mode |-> mode])

Unlock(l) == Cmd("unlock", l, NoArg)

\* a guard taken and dropped within one statement
Brief(l, mode) == <<Lock(l, mode), Unlock(l)>>

LockKind(l) == IF l \in {"config", "lru", "counts"} THEN "accountant" ELSE l

\* storage/engine.rs set_expiry and persist: get_mut holds the shard while the
\* schedule is changed
PathSetExpiry ==
  <<Lock("shard", "W")>> \o Brief("schedule", "W") \o <<Unlock("shard")>>

\* remove_from_tracking: lru_order.write() and then access_counts.write()
PathRemoveFromTracking ==
  <<Lock("lru", "W"), Lock("counts", "W"), Unlock("counts"), Unlock("lru")>>

\* update_access under an LRU policy
PathUpdateAccess == Brief("config", "R") \o Brief("lru", "W")

\* storage/engine.rs remove of a present key with a budget: the Ref of
\* data.get is held over is_enabled and remove_memory
PathRemove ==
  <<Lock("shard", "R")>> \o Brief("config", "R") \o PathRemoveFromTracking
    \o <<Unlock("shard")>> \o Brief("schedule", "W") \o Brief("shard", "W")

\* storage/engine.rs get of a present key with a budget
PathGet == Brief("shard", "R") \o Brief("config", "R") \o PathUpdateAccess

\* evict_lru: lru_order.write() is held while get_value reads the keyspace
PathEvictLru ==
  <<Lock("lru", "W")>> \o Brief("shard", "R") \o <<Unlock("lru")>>

\* storage/engine.rs set of a new key under allkeys-lru, the loop evicting one
\* key: is_enabled, should_reject_write, old_value, check_eviction_needed,
\* evict_one, data.remove, cancel_expiration, remove_memory,
\* check_eviction_needed, data.insert, and add_memory under the Ref of data.get
PathSet ==
  Brief("config", "R") \o Brief("config", "R") \o Brief("shard", "R")
    \o Brief("config", "R") \o Brief("config", "R") \o PathEvictLru
    \o Brief("shard", "W") \o Brief("schedule", "W") \o PathRemoveFromTracking
    \o Brief("config", "R") \o Brief("shard", "W")
    \o <<Lock("shard", "R")>> \o PathUpdateAccess \o <<Unlock("shard")>>

\* storage/expire.rs start_sweep_task, a tick with one key due: the schedule
\* is dropped before cancel_expiration and remove_fn
PathSweep == Brief("schedule", "W") \o Brief("schedule", "W") \o Brief("shard", "W")

\* lib.rs set over an entry with a deadline: the Ref of data.get is held over
\* expiration.cancel
PathLibSet ==
  <<Lock("shard", "R")>> \o Brief("schedule", "W") \o <<Unlock("shard")>>
    \o Brief("shard", "W")

\* lib.rs start_expiration_sweeper, a tick with one key due: the guard e of
\* the schedule is held over expiration.cancel and data.remove
PathLibSweep ==
  <<Lock("schedule", "W")>> \o Brief("schedule", "W") \o Brief("shard", "W")
    \o <<Unlock("schedule")>>

\* the operations two tasks can run on one engine of storage/engine.rs, and on
\* one engine of lib.rs
StoragePaths == {PathSetExpiry, PathRemove, PathGet, PathSet, PathSweep}

LibPaths == {PathSetExpiry, PathLibSet, PathLibSweep}

\* two tasks start one operation each on the same engine
Spawn ==
  /\ thr = <<>>
  /\ \E P \in {StoragePaths, LibPaths} : \E p1 \in P, p2 \in P :
       thr' = [t \in 1..2 |->
                 [prog |-> IF t = 1 THEN p1 ELSE p2, i |-> 1, pc |-> "call",
                  val |-> <<>>, res |-> <<>>]]
  /\ UNCHANGED <<data, exp, total, lru, cnt, maxmemory, policy, now, sweeper, last,
                 accessed, credits, snap>>

\* the guards of lock l held by task t
HeldBy(t, l) == {i \in DOMAIN thr[t].val : thr[t].val[i].lock = l}

\* lock l can be given to task t in mode: a mutex or a write lock when nobody
\* (the task itself included) holds it, a read lock when nobody holds it for
\* writing
CanAcquire(t, l, mode) ==
  \A u \in DOMAIN thr : \A i \in HeldBy(u, l) :
    mode = "R" /\ thr[u].val[i].mode = "R"

Acquire(t) ==
  /\ Running(t) /\ Current(t).op = "lock"
  /\ CanAcquire(t, Current(t).key, Current(t).arg.mode)
  /\ thr' = [thr EXCEPT ![t].i = @ + 1,
                         ![t].val = Append(@, [lock |-> Current(t).key,
                                               mode |-> Current(t).arg.mode])]
  /\ UNCHANGED <<data, exp, total, lru, cnt, maxmemory, policy, now, sweeper, last,
                 accessed, credits, snap>>

\* the guard of the lock taken last is dropped
Release(t) ==
  /\ Running(t) /\ Current(t).op = "unlock"
  /\ LET held == thr[t].val
         last_i == CHOOSE i \in HeldBy(t, Current(t).key) :
                     \A j \in HeldBy(t, Current(t).key) : j <= i
     IN thr' = [thr EXCEPT ![t].i = @ + 1,
                           ![t].val = [j \in 1..(Len(held) - 1) |->
                                         IF j < last_i THEN held[j] ELSE held[j + 1]]]
  /\ UNCHANGED <<data, exp, total, lru, cnt, maxmemory, policy, now, sweeper, last,
                 accessed, credits, snap>>

LockStep == \E t \in DOMAIN thr : Acquire(t) \/ Release(t)

\* ------------------------------------------------------------------ sweeper
\* start_expiration_sweeper: tokio::spawn of one more sweep task; n bounds the
\* calls made
Start(n) ==
  /\ Len(sweeper) < n
  /\ sweeper' = Append(sweeper, [pc |-> "tick", now |-> None, keys_to_remove |-> <<>>])
  /\ UNCHANGED <<data, exp, total, lru, cnt, maxmemory, policy, now, last, accessed,
               credits, thr, snap>>

\* keys_to_remove: the expired buckets in ascending time, each HashSet in some
\* iteration order
RECURSIVE Drain(_, _, _)
Drain(sched, t, upto) ==
  IF t > upto THEN {<<>>}
  ELSE {a \o b : a \in Orderings(sched[t]), b \in Drain(sched, t + 1, upto)}

\* the filter of the sweep: a bucket at t is taken by the tick at clock n
BucketDue(t, n) == t <= n

\* the buckets of the schedule a tick at clock n leaves / takes
DueOnly(sched, n) == [t \in Instants |-> IF BucketDue(t, n) THEN sched[t] ELSE {}]

NotDue(sched, n) == [t \in Instants |-> IF BucketDue(t, n) THEN {} ELSE sched[t]]

\* interval.tick() fires: under the schedule lock, take the buckets at or
\* before now
SweepTick(i) ==
  /\ sweeper[i].pc = "tick"
  /\ \E ks \in Drain(DueOnly(exp, now), 0, MaxTime + MaxDur) :
       sweeper' = [sweeper EXCEPT ![i] =
                     [pc |-> IF ks = <<>> THEN "tick" ELSE "cancel",
                      now |-> now, keys_to_remove |-> ks]]
  /\ exp' = NotDue(exp, now)
  /\ UNCHANGED <<data, total, lru, cnt, maxmemory, policy, now, last, accessed,
               credits, thr, snap>>

\* self.cancel_expiration(&key) for the next key of the loop
SweepCancel(i) ==
  /\ sweeper[i].pc = "cancel"
  /\ exp' = CancelExpiration(exp, Head(sweeper[i].keys_to_remove))
  /\ sweeper' = [sweeper EXCEPT ![i].pc = "remove"]
  /\ UNCHANGED <<data, total, lru, cnt, maxmemory, policy, now, last, accessed,
               credits, thr, snap>>

\* remove_fn(&key): data.remove(key)
SweepRemove(i) ==
  /\ sweeper[i].pc = "remove"
  /\ data' = MapRemove(data, Head(sweeper[i].keys_to_remove))
  /\ sweeper' = [sweeper EXCEPT
                   ![i].keys_to_remove = Tail(@),
                   ![i].pc = IF Tail(sweeper[i].keys_to_remove) = <<>>
                             THEN "tick" ELSE "cancel"]
  /\ accessed' = SeqRetainNe(accessed, Head(sweeper[i].keys_to_remove))
  /\ UNCHANGED <<exp, total, lru, cnt, maxmemory, policy, now, last, credits, thr, snap>>

Sweep ==
  \E i \in DOMAIN sweeper : SweepTick(i) \/ SweepCancel(i) \/ SweepRemove(i)

\* -------------------------------------------------------------------- clock
Tick ==
  /\ now < MaxTime
  /\ now' = now + 1
  /\ UNCHANGED <<data, exp, total, lru, cnt, maxmemory, policy, sweeper, last, accessed,
               credits, thr, snap>>

\* ----------------------------------------------------------- specifications
Durations == 0..MaxDur

Keys2 == {"k1", "k2"}

\* An engine made by StorageEngine::new (no budget): keys, deadlines and the
\* sweeper.
NextExpire ==
  \/ Get(Keys2) \/ Set(Keys2, {"v"}) \/ Del(Keys2) \/ Expire(Keys2, Durations)
  \/ Persist(Keys2)
  \/ Start(1) \/ Sweep \/ Tick

SpecExpire == InitEngine(None, "NoEviction") /\ [][NextExpire]_vars

\* the scheduling the runtime gives: the clock advances and the spawned sweep
\* task keeps being run
FairSpecExpire == SpecExpire /\ WF_vars(Tick) /\ WF_vars(Sweep)

\* An engine made by new() or with_config, with and without a budget, under
\* each policy: writes, reads, deletes, flush and a later set_maxmemory.
NextMem ==
  \/ Get(Keys2) \/ Set(Keys2, Vals) \/ Del(Keys2)
  \/ Flushdb \/ SetMaxmemory(Budgets)

SpecMem == Init /\ [][NextMem]_vars

\* An engine made by with_config with a budget and volatile-ttl: writes,
\* deadlines and deletes.
NextTtl == Set(Keys2, {"v"}) \/ Expire(Keys2, Durations) \/ Del(Keys2) \/ Get(Keys2)

SpecTtl == InitEngine(106, "VolatileTtl") /\ [][NextTtl]_vars

\* Two callers sharing an engine made by new(): one key is prepared by
\* commands run alone, then each caller runs a program on it.
PairCmds ==
  {Cmd("GET", "k1", NoArg), Cmd("DEL", "k1", NoArg), Cmd("SET", "k1", [val |-> "vvv"])}
    \cup {Cmd("SADD", "k1", [member |-> m]) : m \in Elems}
    \cup {Cmd("LPUSH", "k1", [value |-> m]) : m \in Elems}
    \cup {Cmd("HSET", "k1", [field |-> m, value |-> "a"]) : m \in Elems}

SetThenGet == <<Cmd("SET", "k1", [val |-> "vvv"]), Cmd("GET", "k1", NoArg)>>

Programs == {<<c>> : c \in PairCmds} \cup {SetThenGet}

PrepareCmds ==
  {Cmd("SET", "k1", [val |-> "v"]), Cmd("SADD", "k1", [member |-> "a"]),
   Cmd("LPUSH", "k1", [value |-> "a"]), Cmd("HSET", "k1", [field |-> "a", value |-> "a"])}

NextPair ==
  \/ Alone(PrepareCmds)
  \/ (thr = <<>> /\ Expire({"k1"}, {0}))
  \/ Fork(Programs)
  \/ Step

SpecPair == InitEngine(None, "NoEviction") /\ [][NextPair]_vars

Keys4 == {"k1", "k2", "k3", "k4"}

\* a budget that three entries with a two-byte key and a one-byte value fill
LruBudget == 3 * EntrySize("k1", StoredValue(StringData("v"), None))

\* An engine made by with_config with LruBudget and allkeys-lru.
NextLru == Get(Keys4) \/ Set(Keys4, {"v"}) \/ Del(Keys4) \/ Flushdb

SpecLru == InitEngine(LruBudget, "AllKeysLru") /\ [][NextLru]_vars

\* a budget that two entries with a two-byte key and a one-byte value fill
LfuBudget == 2 * EntrySize("k1", StoredValue(StringData("v"), None))

\* An engine made by with_config with LfuBudget and allkeys-lfu or
\* volatile-lfu: writes, reads, deadlines and deletes.
NextLfu == Get(Keys) \/ Set(Keys, {"v"}) \/ Del(Keys) \/ Expire(Keys, {MaxDur})

SpecLfu ==
  /\ \E p \in {"AllKeysLfu", "VolatileLfu"} : InitEngine(LfuBudget, p)
  /\ [][NextLfu]_vars

\* Two callers sharing an engine made by with_config with a budget that two
\* small entries fill and volatile-lru or volatile-lfu: keys and deadlines are
\* prepared by commands run alone, then each caller runs one command.
VolPrepare ==
  {Cmd("SET", k, [val |-> "v"]) : k \in Keys2}
    \cup {Cmd("EXPIRE", k, [seconds |-> MaxDur]) : k \in Keys2}

VolPrograms ==
  {<<Cmd("SET", k, [val |-> "v"])>> : k \in Keys}
    \cup {<<Cmd("PERSIST", "k1", NoArg)>>, <<Cmd("EXPIRE", "k1", [seconds |-> MaxDur])>>}

NextVol == Alone(VolPrepare) \/ Fork(VolPrograms) \/ Step \/ Pick

SpecVol ==
  /\ \E p \in {"VolatileLru", "VolatileLfu"} : InitEngine(LfuBudget, p)
  /\ [][NextVol]_vars

\* Two callers sharing an engine made by new(): k1 is stored and given a
\* deadline by commands run alone, then each caller runs one of SET, EXPIRE
\* and DEL on it.
RacePrepare == {Cmd("SET", "k1", [val |-> "v"]), Cmd("EXPIRE", "k1", [seconds |-> 0])}

RacePrograms ==
  {<<Cmd("SET", "k1", [val |-> "vvv"])>>, <<Cmd("DEL", "k1", NoArg)>>}
    \cup {<<Cmd("EXPIRE", "k1", [seconds |-> d])>> : d \in {1, 2}}

NextRace == Alone(RacePrepare) \/ Fork(RacePrograms) \/ Step \/ Cancel

SpecRace == InitEngine(None, "NoEviction") /\ [][NextRace]_vars

\* Two tasks on one engine, each running one operation, seen as the locks it
\* takes and drops.
NextLocks == Spawn \/ LockStep

SpecLocks == InitEngine(LruBudget, "AllKeysLru") /\ [][NextLocks]_vars

\* the commands that work on a value of one kind, on key k
TypedCmds(k) ==
  {Cmd("GET", k, NoArg), Cmd("HGETALL", k, NoArg), Cmd("LLEN", k, NoArg),
   Cmd("SMEMBERS", k, NoArg)}
    \cup {Cmd("HSET", k, [field |-> m, value |-> "a"]) : m \in Elems}
    \cup {Cmd("HGET", k, [field |-> m]) : m \in Elems}
    \cup {Cmd("HDEL", k, [field |-> m]) : m \in Elems}
    \cup {Cmd("LPUSH", k, [value |-> m]) : m \in Elems}
    \cup {Cmd("RPUSH", k, [value |-> m]) : m \in Elems}
    \cup {Cmd("SADD", k, [member |-> m]) : m \in Elems}

\* An engine made by new(): one key that holds a string, a hash, a list or a
\* set, with or without a deadline, and every typed command on it.
NextType ==
  \/ Alone(TypedCmds("k1") \cup {Cmd("SET", "k1", [val |-> "v"])})
  \/ Del({"k1"}) \/ Expire({"k1"}, Durations) \/ Tick

SpecType == InitEngine(None, "NoEviction") /\ [][NextType]_vars

\* the caller's handles of the engine are still in scope
Alive == last.op # "drop"

\* the last StorageEngine / Client handle held by a caller goes out of scope:
\* StorageEngine has no Drop impl and the spawned tasks hold their own clones of
\* data and expiration, so nothing else changes
DropEngine ==
  /\ Alive
  /\ last' = [op |-> "drop", key |-> NoKey, arg |-> NoArg, res |-> VOkay]
  /\ UNCHANGED <<data, exp, total, lru, cnt, maxmemory, policy, now, sweeper, accessed,
                 credits, thr, snap>>

\* the number of start_expiration_sweeper() / Client::start() calls made
MaxStarts == 2

\* An engine made by new(): one key, its deadlines, up to MaxStarts calls of
\* start_expiration_sweeper, and the end of the engine's lifetime.
NextSweep ==
  \/ (Alive /\ Set({"k1"}, {"v"}))
  \/ (Alive /\ Expire({"k1"}, Durations))
  \/ (Alive /\ Start(MaxStarts))
  \/ DropEngine
  \/ Sweep
  \/ Tick

SpecSweep == InitEngine(None, "NoEviction") /\ [][NextSweep]_vars

\* the seconds given to EXPIRE: a negative one, and those that keep the
\* deadline within Instants
SignedSeconds == (0 - 1)..(MaxTime + MaxDur)

ExpireWithin(K) ==
  \E k \in K, d \in SignedSeconds :
    /\ d < 0 \/ now + d \in Instants
    /\ Call("EXPIRE", k, [seconds |-> d], ClientExpire(Engine, k, d, now))

\* An engine made by new(): two keys, EXPIRE with any i64 seconds, TTL, PERSIST
\* and the clock; no sweeper is started.
NextDeadline ==
  \/ Set(Keys2, {"v"}) \/ Del(Keys2) \/ ExpireWithin(Keys2) \/ Ttl(Keys2)
  \/ Persist(Keys2) \/ Tick

SpecDeadline == InitEngine(None, "NoEviction") /\ [][NextDeadline]_vars

\* the hash and list commands on key k, with each field, value and element
CollCmds(k) ==
  {Cmd("LLEN", k, NoArg)}
    \cup {Cmd("HSET", k, [field |-> f, value |-> v]) : f \in Elems, v \in Elems}
    \cup {Cmd("HGET", k, [field |-> f]) : f \in Elems}
    \cup {Cmd("HDEL", k, [field |-> f]) : f \in Elems}
    \cup {Cmd("LPUSH", k, [value |-> x]) : x \in Elems}
    \cup {Cmd("RPUSH", k, [value |-> x]) : x \in Elems}

\* An engine made by new(): one key that holds a hash or a list, written and
\* read by the hash and list commands, deleted and tested by EXISTS.
NextColl == Alone(CollCmds("k1")) \/ Del({"k1"}) \/ Exists({"k1"})

SpecColl == InitEngine(None, "NoEviction") /\ [][NextColl]_vars

\* a caller encodes P and decodes the Value it got as P's type, with the
\* traits of types/ (lib = FALSE) or of lib.rs (lib = TRUE)
Convert ==
  /\ \E lib \in BOOLEAN, P \in Primitives :
       /\ lib => P.ty \in LibTypes
       /\ last' = [op |-> IF lib THEN "lib_decode" ELSE "decode", key |-> NoKey,
                   arg |-> [val |-> P],
                   res |-> IF lib THEN LibFromRedisValue(P.ty, Head(ToRedisArgs(P)))
                           ELSE FromRedisValue(P.ty, Head(ToRedisArgs(P)))]
  /\ UNCHANGED <<data, exp, total, lru, cnt, maxmemory, policy, now, sweeper, accessed,
                 credits, thr, snap>>

\* Client::set of a value of any of the types
SetTyped(K) ==
  \E k \in K, P \in Primitives :
    Call("SET", k, [val |-> P], ClientSet(Engine, k, ValueToVec(ToRedisArgs(P))))

\* Client::get::<_, RV> for each RV of lib.rs
GetTyped(K) ==
  \E k \in K, ty \in LibTypes :
    Call("GET", k, [ty |-> ty],
         {[e |-> o.e, res |-> LibFromRedisValue(ty, o.res)] : o \in ClientGet(Engine, k, now)})

\* An engine made by new(): values of each type encoded and decoded, and
\* stored by SET and read back by GET.
NextConv == Convert \/ SetTyped({"k1"}) \/ GetTyped({"k1"})

SpecConv == InitEngine(None, "NoEviction") /\ [][NextConv]_vars

\* An engine made by with_config with a budget that two small entries fill,
\* under allkeys-lru or allkeys-lfu, with the sweeper started: writes, reads,
\* deadlines, deletes, flush and the sweep task's ticks.
NextSweepMem ==
  \/ Get({"k1"}) \/ Set(Keys2, {"v"}) \/ Del(Keys2) \/ Expire(Keys2, {0})
  \/ Flushdb \/ Start(1) \/ Sweep \/ Tick

SpecSweepMem ==
  /\ \E p \in {"AllKeysLru", "AllKeysLfu"} : InitEngine(LfuBudget, p)
  /\ [][NextSweepMem]_vars

\* the policies given to set_maxmemory_policy while the engine runs
RuntimePolicies == {"AllKeysLru", "AllKeysRandom", "VolatileRandom"}

\* An engine made by with_config with a budget that two small entries fill and
\* one of RuntimePolicies, the policy being changed while it runs: writes,
\* deadlines, deletes and flush.
NextPolicy ==
  \/ Set(Keys, {"v"}) \/ Del(Keys2) \/ Expire(Keys2, {MaxDur}) \/ Flushdb
  \/ SetMaxmemoryPolicy(RuntimePolicies)

SpecPolicy ==
  /\ \E p \in RuntimePolicies : InitEngine(LfuBudget, p)
  /\ [][NextPolicy]_vars

\* Two callers sharing an engine made by with_config with a budget that two
\* small entries fill and allkeys-lru: the keys are stored by commands run
\* alone, then each caller runs one DEL, GET or SET.
DelPrepare == {Cmd("SET", k, [val |-> v]) : k \in Keys2, v \in Vals}

DelPrograms ==
  {<<Cmd("DEL", k, NoArg)>> : k \in Keys2}
    \cup {<<Cmd("GET", "k1", NoArg)>>, <<Cmd("SET", "k1", [val |-> "v"])>>}

NextDel == Alone(DelPrepare) \/ Fork(DelPrograms) \/ Step \/ Debit

SpecDel == InitEngine(LfuBudget, "AllKeysLru") /\ [][NextDel]_vars

\* ------------------------------------------------------------------- claims
\* what EXISTS, TTL and GET report for a key that is gone
KeyGone(k) ==
  /\ ~EngineExists(Engine, k)
  /\ TtlQuery(Engine, k, now) = -2
  /\ \A o \in ClientGet(Engine, k, now) : o.res = VNull

\* a sweep task that has ticked and is waiting for its next tick has left no key
\* whose deadline was before that tick
SweptAtTick ==
  \A i \in DOMAIN sweeper :
    (sweeper[i].pc = "tick" /\ sweeper[i].now # None) =>
      \A k \in DOMAIN data :
        data[k].expire_at # None => data[k].expire_at >= sweeper[i].now

\* C1: with the sweeper started, a key whose deadline D was set (and is within
\* the clock's range) is eventually removed by the sweeper unless its deadline
\* is changed or cleared first; it is then reported absent by EXISTS, TTL and
\* GET; and no tick of the sweeper leaves behind a key that was due before it.
C1_SweeperRemovesDueKeys ==
  /\ \A k \in Keys2 : \A D \in 0..MaxTime :
       (Len(sweeper) > 0 /\ k \in DOMAIN data /\ data[k].expire_at = D)
         ~> (KeyGone(k) \/ (k \in DOMAIN data /\ data[k].expire_at # D))
  /\ []SweptAtTick

\* C1 witness: EXPIRE succeeded on a key, no command ran since, and the key is
\* gone: the sweeper removed it.
C1_Witness ==
  /\ last.op = "EXPIRE"
  /\ last.res = VBool(TRUE)
  /\ KeyGone(last.key)
  /\ Len(sweeper) > 0
  /\ sweeper[1].pc = "tick"

\* no sweep task is in the middle of a tick
SweeperIdle == \A i \in DOMAIN sweeper : sweeper[i].pc = "tick"

\* C2: (outside a sweep in progress) a key with deadline D is scheduled under
\* D and under no other deadline, and a key without a deadline is scheduled
\* nowhere.
C2_ScheduleMatchesDeadline ==
  SweeperIdle =>
    \A k \in DOMAIN data : \A t \in Instants :
      k \in exp[t] <=> data[k].expire_at = t

\* C3: every key-addressed command run on a key whose deadline has passed
\* gives the absent-key result and leaves the key out of the keyspace.
C3_ExpiredKeyTreatedAsAbsent ==
  \A k \in DOMAIN data :
    IsExpired(data[k], now) =>
      /\ \A o \in ClientGet(Engine, k, now) : o.res = VNull /\ k \notin DOMAIN o.e.data
      /\ \A o \in ClientExists(Engine, k) :
           o.res = VBool(FALSE) /\ k \notin DOMAIN o.e.data
      /\ \A o \in ClientTtl(Engine, k, now) : o.res = VInt(-2) /\ k \notin DOMAIN o.e.data
      /\ \A o \in ClientExpire(Engine, k, 1, now) :
           o.res = VBool(FALSE) /\ k \notin DOMAIN o.e.data
      /\ \A o \in ClientPersist(Engine, k) :
           o.res = VBool(FALSE) /\ k \notin DOMAIN o.e.data
      /\ \A o \in ClientHset(Engine, k, "a", "b") :
           o.res = VInt(1) /\ o.e.data[k] = StoredValue(HashData(MapPut(<<>>, "a", "b")), None)
      /\ \A o \in ClientHget(Engine, k, "a", now) :
           o.res = VNull /\ k \notin DOMAIN o.e.data
      /\ \A o \in ClientHdel(Engine, k, "a") : o.res = VInt(0) /\ k \notin DOMAIN o.e.data
      /\ \A o \in ClientPush(Engine, k, "a", TRUE) :
           o.res = VInt(1) /\ o.e.data[k] = StoredValue(ListData(<<"a">>), None)
      /\ \A o \in ClientPush(Engine, k, "a", FALSE) :
           o.res = VInt(1) /\ o.e.data[k] = StoredValue(ListData(<<"a">>), None)
      /\ \A o \in ClientLlen(Engine, k, now) : o.res = VInt(0) /\ k \notin DOMAIN o.e.data
      /\ \A o \in ClientSadd(Engine, k, "a") :
           o.res = VInt(1) /\ o.e.data[k] = StoredValue(SetData({"a"}), None)
      /\ \A o \in ClientSmembers(Engine, k, now) :
           o.res = VArray({}) /\ k \notin DOMAIN o.e.data

\* the sum over the keys present of len(key) + KEY_OVERHEAD + estimated_size
RECURSIVE LiveSize(_, _)
LiveSize(d, S) ==
  IF S = {} THEN 0
  ELSE LET k == CHOOSE x \in S : TRUE
       IN EntrySize(k, d[k]) + LiveSize(d, S \ {k})

\* C6: whenever a budget is configured and no sweep is in progress,
\* current_memory_usage() equals the sum over the keys present of
\* len(key) + KEY_OVERHEAD + estimated_size(value).
C6_AccountantMatchesKeyspace ==
  (IsEnabled(Engine) /\ SweeperIdle) => total = LiveSize(data, DOMAIN data)

\* the largest entry a single SET of the specification writes
LargestWrite ==
  LET sizes == {EntrySize(k, StoredValue(StringData(v), None)) : k \in Keys2, v \in Vals}
  IN CHOOSE n \in sizes : \A m \in sizes : m <= n

\* C7: with a budget B configured, after every completed write the accountant
\* total is at most B plus the largest single write, and under noeviction it
\* is at most B.
C7_TotalWithinBudget ==
  (IsEnabled(Engine) /\ last.op = "SET" /\ last.res = VOkay) =>
    /\ total >= 0
    /\ total <= maxmemory + LargestWrite
    /\ policy = "NoEviction" => total <= maxmemory

\* current total + size delta of SET key val
ProjectedTotal(e, key, val) ==
  e.total + EntrySize(key, StoredValue(StringData(val), None))
          - (IF key \in DOMAIN e.data THEN EntrySize(key, e.data[key]) ELSE 0)

\* C8: under noeviction with budget B, a SET whose projected total exceeds B
\* gives the caller an OutOfMemory error and leaves the engine as it was.
C8_NoEvictionRejectsOverflow ==
  (IsEnabled(Engine) /\ policy = "NoEviction") =>
    \A k \in Keys2, v \in Vals :
      ProjectedTotal(Engine, k, v) > maxmemory =>
        \A o \in ClientSet(Engine, k, v) : o.res = Err("OutOfMemory") /\ o.e = Engine

\* C9: under allkeys-lru the keys a SET evicts are the least recently accessed
\* keys present, oldest first, and a SET of a new key that needs eviction
\* evicts at least the least recently accessed key.
C9_LruVictim ==
  [][last'.op = "SET" =>
       LET gone == DOMAIN data \ DOMAIN data'
           n == Cardinality(gone)
       IN /\ n <= Len(accessed)
          /\ gone = {accessed[i] : i \in 1..n}
          /\ (CheckEvictionNeeded(Engine) /\ last'.key \notin DOMAIN data
                /\ accessed # <<>> /\ last'.res = VOkay)
               => n >= 1]_vars

\* C9 witness: k1, k2, k3 were stored and k1 was then read; the budget is
\* full, and SET k4 evicts k2 and leaves k1, k3, k4.
C9_Witness ==
  /\ last.op = "GET" /\ last.key = "k1"
  /\ accessed = <<"k2", "k3", "k1">>
  /\ CheckEvictionNeeded(Engine)
  /\ \A o \in ClientSet(Engine, "k4", "v") :
       o.res = VOkay /\ DOMAIN o.e.data = {"k1", "k3", "k4"}

\* C10: under volatile-ttl, a SET of a new key that needs eviction evicts the
\* key with the earliest deadline among the keys that have one.
C10_VolatileTtlVictim ==
  (policy = "VolatileTtl" /\ CheckEvictionNeeded(Engine)) =>
    \A k \in Keys \ DOMAIN data :
      \A o \in EngineSet(Engine, k, StringData("v"), None) :
        \A j \in DOMAIN data :
          (HasTtl(Engine, j)
             /\ \A i \in DOMAIN data :
                  HasTtl(Engine, i) => data[j].expire_at <= data[i].expire_at)
            => (\E i \in DOMAIN data :
                  /\ HasTtl(Engine, i)
                  /\ data[i].expire_at = data[j].expire_at
                  /\ i \notin DOMAIN o.e.data)

\* every order of the two callers' whole commands, from engine e: the engines
\* and results [e, r1, r2] they can end with
RECURSIVE SerialRuns(_, _, _, _, _)
SerialRuns(e, p1, p2, r1, r2) ==
  IF p1 = <<>> /\ p2 = <<>> THEN {[e |-> e, r1 |-> r1, r2 |-> r2]}
  ELSE (IF p1 = <<>> THEN {}
        ELSE UNION {SerialRuns(o.e, Tail(p1), p2, Append(r1, o.res), r2)
                    : o \in ClientRun(Head(p1), e, now)})
       \cup
       (IF p2 = <<>> THEN {}
        ELSE UNION {SerialRuns(o.e, p1, Tail(p2), r1, Append(r2, o.res))
                    : o \in ClientRun(Head(p2), e, now)})

BothDone == thr # <<>> /\ \A t \in DOMAIN thr : ~Running(t)

OpsOf(p) == {p[i].op : i \in DOMAIN p}

\* the values SET has been given for k1: by the programs, or before they began
WrittenValues ==
  UNION {{thr[t].prog[i].arg.val :
            i \in {j \in DOMAIN thr[t].prog : thr[t].prog[j].op = "SET"}}
         : t \in DOMAIN thr}
  \cup (IF "k1" \in DOMAIN snap.data /\ snap.data["k1"].data.kind = "String"
        THEN {snap.data["k1"].data.val} ELSE {})

\* C4: with callers running only SET and GET on a string key, every GET gives
\* null or a value that some SET was given; and when a caller's SET(K, v) has
\* returned and it then runs GET(K), while the other caller only runs GET, the
\* GET gives v.
C4_GetReturnsLatestWrite ==
  (/\ thr # <<>>
   /\ \A t \in DOMAIN thr : OpsOf(thr[t].prog) \subseteq {"SET", "GET"}
   /\ "k1" \in DOMAIN snap.data => snap.data["k1"].data.kind = "String")
  =>
   /\ \A t \in DOMAIN thr : \A i \in DOMAIN thr[t].res :
        thr[t].prog[i].op = "GET" =>
          thr[t].res[i] \in {VNull} \cup {VString(v) : v \in WrittenValues}
   /\ \A t \in DOMAIN thr : \A u \in DOMAIN thr \ {t} :
        (thr[t].prog = SetThenGet /\ OpsOf(thr[u].prog) = {"GET"} /\ ~Running(t))
          => thr[t].res[2] = VString(SetThenGet[1].arg.val)

\* the pairs of commands C5 names: two SADD, two LPUSH, two HSET, or one of
\* these with DEL
C5Pair(c1, c2) ==
  \/ c1.op = c2.op /\ c1.op \in {"SADD", "LPUSH", "HSET"}
  \/ c1.op = "DEL" /\ c2.op \in {"SADD", "LPUSH", "HSET"}
  \/ c2.op = "DEL" /\ c1.op \in {"SADD", "LPUSH", "HSET"}

\* C5: when two callers run one mutating command each on the same key at the
\* same time, the final keyspace and the two results are those of one of the
\* two sequential orders.
C5_SingleKeyLinearizable ==
  (/\ BothDone
   /\ Len(thr[1].prog) = 1 /\ Len(thr[2].prog) = 1
   /\ C5Pair(thr[1].prog[1], thr[2].prog[1]))
  =>
   \E x \in SerialRuns(snap, thr[1].prog, thr[2].prog, <<>>, <<>>) :
     x.e.data = data /\ x.r1 = thr[1].res /\ x.r2 = thr[2].res

\* the keys eviction may take under the policy in force
Candidate(e, k) == k \in DOMAIN e.data /\ (IsVolatile(e.policy) => HasTtl(e, k))

\* the counter of every key present is the seed and one increment for each
\* credit and read the key has had since it was last debited, the first
\* credit included; and keys that are not present have no counter
LfuCounters ==
  /\ DOMAIN cnt = DOMAIN data
  /\ DOMAIN credits = DOMAIN data
  /\ \A k \in DOMAIN data : cnt[k] = COUNTER_INIT + 1 + credits[k]

\* the keys a SET evicts are candidates, none of them credited or read more
\* often than a candidate that stays; and a SET of a new key that needs
\* eviction while there is a candidate evicts one
LfuVictim ==
  last'.op = "SET" =>
    LET gone == DOMAIN data \ DOMAIN data'
        stay == {k \in DOMAIN data \ gone : Candidate(Engine, k) /\ k # last'.key}
    IN /\ \A g \in gone :
            /\ Candidate(Engine, g)
            /\ \A r \in stay : credits[g] <= credits[r]
       /\ (CheckEvictionNeeded(Engine) /\ last'.key \notin DOMAIN data
             /\ last'.res = VOkay /\ \E k \in DOMAIN data : Candidate(Engine, k))
            => gone # {}

\* C11 (as first stated): under the LFU policies a key's counter is 5 when the
\* key is first credited and is one more for each later credit and each read.
C11_CounterSeededAtFive ==
  \A k \in DOMAIN cnt : cnt[k] = COUNTER_INIT + credits[k]

\* C11 (amended): under allkeys-lfu and volatile-lfu the eviction victim is a
\* candidate key with the minimum access counter, where a key's counter is
\* seeded at 5 and incremented by one on every credit, the first included, and
\* on every read, so that it is 6 after the first credit, and is discarded
\* when the key is debited.
C11_LfuVictimHasMinCounter == []LfuCounters /\ [][LfuVictim]_vars

\* C11 witness: k1 was stored and read, k2 was stored after it, the budget is
\* full, and SET k3 evicts k2, the key with the lower counter.
C11_Witness ==
  /\ policy = "AllKeysLfu"
  /\ DOMAIN data = {"k1", "k2"}
  /\ cnt["k1"] = COUNTER_INIT + 2 /\ cnt["k2"] = COUNTER_INIT + 1
  /\ CheckEvictionNeeded(Engine)
  /\ \A o \in ClientSet(Engine, "k3", "v") :
       o.res = VOkay /\ DOMAIN o.e.data = {"k1", "k3"}

\* C12: under a volatile-* policy, every key that the SET of a caller takes
\* out of the keyspace has a deadline at the moment it is removed.
C12_VolatileEvictsOnlyKeysWithDeadline ==
  [][\A t \in DOMAIN thr :
       (IsVolatile(policy) /\ Running(t) /\ Current(t).op = "SET"
          /\ thr'[t].i = thr[t].i + 1)
         => \A g \in DOMAIN data \ DOMAIN data' : data[g].expire_at # None]_vars

\* C13: under a volatile-* policy with a budget, when no key has a deadline a
\* SET whose projected total exceeds the budget evicts nothing and is not
\* installed: the keyspace and the accountant stay as they were.
C13_VolatileWithoutCandidatesRejects ==
  (IsEnabled(Engine) /\ IsVolatile(policy) /\ \A j \in DOMAIN data : ~HasTtl(Engine, j))
    => \A k \in Keys2, v \in Vals :
         ProjectedTotal(Engine, k, v) > maxmemory =>
           \A o \in EngineSet(Engine, k, StringData(v), None) :
             /\ o.status # "ok"
             /\ o.e.data = data
             /\ o.e.total = total

\* the kind of value a typed command works on
KindOf(op) ==
  CASE op = "GET" -> "String"
    [] op \in {"HSET", "HGET", "HGETALL", "HDEL"} -> "Hash"
    [] op \in {"LPUSH", "RPUSH", "LLEN"} -> "List"
    [] op \in {"SADD", "SMEMBERS"} -> "Set"

Unscheduled(k) == \A t \in Instants : k \notin exp[t]

\* C15: once a SET without ex/px of a key that had a deadline has returned, also
\* when it ran at the same time as an EXPIRE of the key, the key either has the
\* deadline the EXPIRE gave it or has no deadline (TTL is -1) and then no
\* schedule entry lists it.
C15_SetClearsDeadline ==
  (BothDone /\ \E t \in DOMAIN thr : thr[t].prog[1].op = "SET")
    => \A k \in DOMAIN data :
         (k \in DOMAIN snap.data /\ snap.data[k].expire_at # None
            /\ TtlQuery(Engine, k, now) = -1)
           => Unscheduled(k)

\* C16: PERSIST of a key that is present with a deadline returns true, keeps
\* the key and its value, clears the deadline (TTL is -1) and leaves no
\* schedule entry for the key; PERSIST of an absent key returns false; and a
\* second PERSIST leaves the engine as the first left it.
C16_PersistClearsDeadlineIdempotent ==
  \A k \in Keys2 :
    \A o \in ClientPersist(Engine, k) :
      /\ o.res = VBool(k \in DOMAIN data)
      /\ (k \in DOMAIN data /\ data[k].expire_at # None) =>
           /\ DOMAIN o.e.data = DOMAIN data
           /\ o.e.data[k] = StoredValue(data[k].data, None)
           /\ TtlQuery(o.e, k, now) = -1
           /\ \A t \in Instants : k \notin o.e.exp[t]
      /\ \A o2 \in ClientPersist(o.e, k) : o2.e = o.e /\ o2.res = o.res

\* C16 witness: PERSIST has just returned true for a key, which is present,
\* has no deadline and is not scheduled, while another key still has its
\* deadline.
C16_Witness ==
  /\ last.op = "PERSIST" /\ last.res = VBool(TRUE)
  /\ last.key \in DOMAIN data
  /\ TtlQuery(Engine, last.key, now) = -1
  /\ Unscheduled(last.key)
  /\ \E j \in DOMAIN data : data[j].expire_at # None /\ j \in exp[data[j].expire_at]


\* C17: DEL of a present key returns 1, removes the entry, leaves no schedule
\* entry for the key and debits the accountant by the entry's size when a
\* budget is configured; DEL of an absent key returns 0 and changes nothing; a
\* second DEL returns 0 and changes nothing; and GET and EXISTS then report
\* the key absent.
C17_DelRemovesOnce ==
  \A k \in Keys2 :
    \A o \in ClientDel(Engine, k) :
      /\ k \in DOMAIN data =>
           /\ o.res = VInt(1)
           /\ o.e.data = MapRemove(data, k)
           /\ \A t \in Instants : o.e.exp[t] = exp[t] \ {k}
           /\ o.e.total = IF IsEnabled(Engine) THEN total - EntrySize(k, data[k]) ELSE total
      /\ k \notin DOMAIN data => o.res = VInt(0) /\ o.e = Engine
      /\ \A o2 \in ClientDel(o.e, k) : o2.res = VInt(0) /\ o2.e = o.e
      /\ \A g \in ClientGet(o.e, k, now) : g.res = VNull
      /\ \A x \in ClientExists(o.e, k) : x.res = VBool(FALSE)

\* C18: when no sweep tick is in progress and no caller is in the middle of a
\* command, every key listed in the expiration schedule is present in the
\* keyspace.
C18_ScheduledKeysArePresent ==
  (SweeperIdle /\ \A t \in DOMAIN thr : thr[t].pc = "call")
    => \A t \in Instants : exp[t] \subseteq DOMAIN data

\* shard, then accountant, then schedule
LockRank(l) ==
  CASE LockKind(l) = "shard" -> 1
    [] LockKind(l) = "accountant" -> 2
    [] LockKind(l) = "schedule" -> 3

\* every task took the locks it holds in the order shard, accountant, schedule
LockOrderKept ==
  \A t \in DOMAIN thr : \A i, j \in DOMAIN thr[t].val :
    i < j => LockRank(thr[t].val[i].lock) <= LockRank(thr[t].val[j].lock)

\* task t waits for a lock that task u holds
WaitsFor(t, u) ==
  /\ Running(t) /\ Current(t).op = "lock"
  /\ \E i \in HeldBy(u, Current(t).key) :
       ~(Current(t).arg.mode = "R" /\ thr[u].val[i].mode = "R")

\* some tasks wait for one another (or a task for itself) in a cycle
CyclicWait ==
  \E S \in SUBSET (DOMAIN thr) :
    S # {} /\ \A t \in S : \E u \in S : WaitsFor(t, u)

\* C19: a task that holds more than one lock took them in the order keyspace
\* shard, accountant, schedule, and no tasks wait for one another in a cycle.
C19_LockOrder == LockOrderKept /\ ~CyclicWait

\* C20: right after FLUSHDB no key is left (DBSIZE is 0), the schedule is empty,
\* the accounted total is 0 and the access-order and counter tables are empty.
C20_FlushResetsAccountant ==
  last.op = "FLUSHDB" =>
    /\ data = <<>>
    /\ ClientDbsize(Engine) = {[e |-> Engine, res |-> VInt(0)]}
    /\ exp = EmptySchedule
    /\ total = 0
    /\ lru = <<>>
    /\ cnt = <<>>

\* C21: however many times the sweeper is started, at most one sweep task
\* runs: the second and later calls are no-ops.
C21_StartIsIdempotent == Len(sweeper) <= 1

\* C22: once the engine's lifetime has ended, no step changes the keyspace or
\* the schedule (the sweeper has stopped before its next tick's mutations).
C22_SweeperStopsAtShutdown ==
  [][~Alive => (data' = data /\ exp' = exp)]_vars

\* key k of engine e is absent, or holds a set whose deadline has not passed
AbsentOrLiveSet(e, k, t) ==
  k \in DOMAIN e.data => (e.data[k].data.kind = "Set" /\ ~IsExpired(e.data[k], t))

\* the members of the set at k in engine e, none for an absent key
MembersOf(e, k) == IF k \in DOMAIN e.data THEN e.data[k].data.val ELSE {}

\* C23: on an absent key or a set, SADD(K, m) returns 1 and adds m when m is
\* not a member and returns 0 and changes nothing when it is; and when two
\* callers have run SADD(K, m) with the same K and m at the same time, the set
\* at K holds m once beside the members it had, and SMEMBERS(K) gives it.
C23_SaddAddsMemberOnce ==
  /\ (thr = <<>> /\ AbsentOrLiveSet(Engine, "k1", now)) =>
       \A m \in Elems : \A o \in ClientSadd(Engine, "k1", m) :
         /\ o.res = VInt(IF m \in MembersOf(Engine, "k1") THEN 0 ELSE 1)
         /\ "k1" \in DOMAIN o.e.data
         /\ o.e.data["k1"].data = SetData(MembersOf(Engine, "k1") \cup {m})
         /\ m \in MembersOf(Engine, "k1") => o.e.data = data
         /\ ClientSmembers(o.e, "k1", now)
              = {[e |-> o.e, res |-> VArray(MembersOf(Engine, "k1") \cup {m})]}
  /\ \A m \in Elems :
       (/\ BothDone
        /\ \A t \in DOMAIN thr : thr[t].prog = <<Cmd("SADD", "k1", [member |-> m])>>
        /\ AbsentOrLiveSet(snap, "k1", now))
       =>
        /\ "k1" \in DOMAIN data
        /\ data["k1"].data = SetData(MembersOf(snap, "k1") \cup {m})
        /\ Cardinality({x \in MembersOf(Engine, "k1") : x = m}) = 1
        /\ "k1" \notin DOMAIN snap.data => Cardinality(MembersOf(Engine, "k1")) = 1
        /\ \A o \in ClientSmembers(Engine, "k1", now) :
             o.res = VArray(MembersOf(snap, "k1") \cup {m})

\* C23 witness: two callers ran SADD(k1, m) at the same time on an absent key,
\* both read it as absent, and the set holds m once.
C23_Witness ==
  /\ BothDone
  /\ \E m \in Elems :
       /\ \A t \in DOMAIN thr :
            /\ thr[t].prog = <<Cmd("SADD", "k1", [member |-> m])>>
            /\ thr[t].res = <<VInt(1)>>
       /\ "k1" \notin DOMAIN snap.data
       /\ MembersOf(Engine, "k1") = {m}

\* the step is a call of EXPIRE that returned (it changed the engine or what
\* the last caller got)
ExpireStep ==
  /\ last'.op = "EXPIRE"
  /\ now' = now
  /\ <<last, data, exp>>' # <<last, data, exp>>

\* the step is a call of TTL
TtlStep == last'.op = "TTL" /\ now' = now /\ last' # last

\* the deadline of k after the step is one it did not have before
DeadlineSet(k) ==
  /\ k \in DOMAIN data' /\ data'[k].expire_at # None
  /\ k \in DOMAIN data => data[k].expire_at # data'[k].expire_at

\* TTL gives -2 for a key not in the keyspace, -1 for one without a deadline,
\* and otherwise a number of seconds from 0 on; it changes nothing
TtlAnswers ==
  \A k \in Keys : \A o \in ClientTtl(Engine, k, now) :
    /\ o.e = Engine
    /\ o.res = VInt(IF k \notin DOMAIN data THEN -2
                    ELSE IF data[k].expire_at = None THEN -1
                    ELSE o.res.int)
    /\ (k \in DOMAIN data /\ data[k].expire_at # None) => o.res.int >= 0

\* C24: TTL(K) is -2 when K is absent, -1 when K has no deadline, and otherwise
\* r >= 0 seconds; a call of TTL leaves the keyspace and the schedule as they
\* were; only EXPIRE(K, s) gives K a new deadline, right after it TTL(K) is s,
\* and from then on TTL(K) never grows while the deadline stays, so r <= s.
C24_TtlReportsRemainingSeconds ==
  /\ []TtlAnswers
  /\ [][TtlStep =>
          /\ data' = data /\ exp' = exp
          /\ last'.res = VInt(TtlQuery(Engine, last'.key, now))]_vars
  /\ [][(ExpireStep /\ last'.res = VBool(TRUE)) =>
          TtlQuery(Engine', last'.key, now') = last'.arg.seconds]_vars
  /\ [][\A k \in Keys :
          /\ DeadlineSet(k) =>
               ExpireStep /\ last'.key = k /\ last'.res = VBool(TRUE)
          /\ (k \in DOMAIN data /\ k \in DOMAIN data'
                /\ data[k].expire_at # None
                /\ data'[k].expire_at = data[k].expire_at) =>
               TtlQuery(Engine', k, now') <= TtlQuery(Engine, k, now)]_vars

\* C24 witness: TTL was asked of a key whose deadline has not passed, some
\* time after its EXPIRE, and gave the seconds left.
C24_Witness ==
  /\ last.op = "TTL" /\ last.key = "k1"
  /\ "k1" \in DOMAIN data /\ data["k1"].expire_at = MaxTime + MaxDur
  /\ now = MaxTime
  /\ last.res = VInt(MaxDur)

C29_NegativeExpireIsInvalidArgument ==
  (last.op = "EXPIRE" /\ last.arg.seconds < 0) => last.res = Err("InvalidArgument")

\* the step is a call of one of the commands ops that returned
StepOf(ops) == last'.op \in ops /\ now' = now /\ <<last, data>>' # <<last, data>>

\* key k holds a value of kind kind
Holds(k, kind) == k \in DOMAIN data /\ data[k].data.kind = kind

\* the fields of the hash at k, none for an absent key
FieldsOf(d, k) == IF k \in DOMAIN d THEN DOMAIN d[k].data.val ELSE {}

\* C26: HSET(K, f, v) on an absent key or a hash returns 1 when f is a new
\* field and 0 when it replaces one; afterwards K exists and holds a hash with
\* f and the fields it had, HGET(K, f) gives v, and the other fields have the
\* values they had.
C26_HsetAddsOrReplacesField ==
  [][(StepOf({"HSET"}) /\ (last'.key \notin DOMAIN data \/ Holds(last'.key, "Hash"))) =>
       LET k == last'.key
           f == last'.arg.field
       IN /\ last'.res = VInt(IF f \in FieldsOf(data, k) THEN 0 ELSE 1)
          /\ k \in DOMAIN data' /\ data'[k].data.kind = "Hash"
          /\ ClientExists(Engine', k) = {[e |-> Engine', res |-> VBool(TRUE)]}
          /\ FieldsOf(data', k) = FieldsOf(data, k) \cup {f}
          /\ ClientHget(Engine', k, f, now')
               = {[e |-> Engine', res |-> VString(last'.arg.value)]}
          /\ \A g \in FieldsOf(data, k) \ {f} :
               data'[k].data.val[g] = data[k].data.val[g]]_vars

\* C26 witness: HSET returned 0, and the field it replaced has the new value
\* beside another field.
C26_Witness ==
  /\ last.op = "HSET" /\ last.res = VInt(0)
  /\ last.arg.field = "a" /\ last.arg.value = "b"
  /\ Holds("k1", "Hash")
  /\ data["k1"].data.val = [g \in {"a", "b"} |-> IF g = "a" THEN "b" ELSE "a"]

\* the list at k, empty for an absent key
ListOf(d, k) == IF k \in DOMAIN d THEN d[k].data.val ELSE <<>>

\* C27: LPUSH(K, x) on an absent key or a list puts x at the front and
\* RPUSH(K, x) at the back, each returns the new length, which LLEN(K) then
\* gives; a list changes by a push only, so its length is the number of pushes
\* since K was created; LLEN of an absent key is 0.
C27_PushReturnsNewLength ==
  /\ [](\A k \in Keys :
          k \notin DOMAIN data =>
            ClientLlen(Engine, k, now) = {[e |-> Engine, res |-> VInt(0)]})
  /\ [][(StepOf({"LPUSH", "RPUSH"})
           /\ (last'.key \notin DOMAIN data \/ Holds(last'.key, "List"))) =>
          LET k == last'.key
              x == last'.arg.value
          IN /\ k \in DOMAIN data' /\ data'[k].data.kind = "List"
             /\ ListOf(data', k) = IF last'.op = "LPUSH"
                                   THEN <<x>> \o ListOf(data, k)
                                   ELSE ListOf(data, k) \o <<x>>
             /\ last'.res = VInt(Len(ListOf(data, k)) + 1)
             /\ ClientLlen(Engine', k, now')
                  = {[e |-> Engine', res |-> VInt(Len(ListOf(data, k)) + 1)]}]_vars
  /\ [][\A k \in Keys :
          (Holds(k, "List") /\ k \in DOMAIN data' /\ data'[k] # data[k]) =>
            StepOf({"LPUSH", "RPUSH"}) /\ last'.key = k]_vars

\* C27 witness: an LPUSH on a list of one element returned 2 and its element
\* is in front of the other.
C27_Witness ==
  /\ last.op = "LPUSH" /\ last.res = VInt(2) /\ last.arg.value = "b"
  /\ Holds("k1", "List")
  /\ data["k1"].data.val = <<"b", "a">>

\* the keys that are present and whose deadline, if any, has not passed
LiveKeys == {k \in DOMAIN data : ~IsExpired(data[k], now)}

\* C28: DBSIZE gives the number of live keys: a key whose deadline has passed
\* is not counted, swept or not; an empty engine gives 0.
C28_DbsizeCountsLiveKeys ==
  ClientDbsize(Engine) = {[e |-> Engine, res |-> VInt(Cardinality(LiveKeys))]}

SweeperRemoves(i) ==
  /\ i \in DOMAIN sweeper
  /\ sweeper[i].pc = "remove"
  /\ sweeper'[i].pc # "remove"

\* C31: the sweeper takes a key out of the keyspace only when the entry the key
\* has at that moment carries a deadline at or before the time of the sweep.
C31_SweeperRemovesOnlyDueEntries ==
  [][\A i \in DOMAIN sweeper :
       LET k == Head(sweeper[i].keys_to_remove)
       IN (SweeperRemoves(i) /\ k \in DOMAIN data /\ k \notin DOMAIN data') =>
            (data[k].expire_at # None /\ data[k].expire_at <= sweeper[i].now)]_vars

\* C32: a task never asks for the schedule mutex while it holds it: the sweep
\* task calls the per-key cancel only after it has released the schedule, so
\* its tick runs to the end and leaves the mutex free for later callers.
C32_SweeperNeverRelocksSchedule ==
  \A t \in DOMAIN thr :
    ~(/\ Running(t)
      /\ Current(t).op = "lock"
      /\ Current(t).key = "schedule"
      /\ HeldBy(t, "schedule") # {})

\* C33: with a budget configured, each key the sweep task takes out of the
\* keyspace is debited: the total goes down by the size of the removed entry
\* and the key leaves the access-order and the LFU tables.
C33_SweeperDebitsAccountant ==
  [][\A i \in DOMAIN sweeper :
       LET k == Head(sweeper[i].keys_to_remove)
       IN (SweeperRemoves(i) /\ IsEnabled(Engine) /\ k \in DOMAIN data) =>
            /\ k \notin DOMAIN data'
            /\ total' = total - EntrySize(k, data[k])
            /\ k \notin Range(lru')
            /\ k \notin DOMAIN cnt']_vars

\* C34: in every reachable state every call of set returns: its eviction loop
\* ends, because the total fell below the budget or no victim was found.
C34_SetTerminates ==
  /\ last.res # Hung
  /\ \A k \in Keys, v \in Vals :
       \A o \in EngineSet(Engine, k, StringData(v), None) : o.status # "hung"

\* C35: the accountant's running total never goes below zero (the usize
\* counter never wraps): no entry is debited twice, and none that was never
\* credited.
C35_TotalNeverUnderflows == total >= 0

\* C36: when two callers have each run DEL on the same key, which was present
\* when they started, exactly one of them got 1 and the total went down by
\* the size of the entry once.
C36_ConcurrentDelDebitsOnce ==
  (/\ BothDone
   /\ thr[1].prog = thr[2].prog
   /\ thr[1].prog[1].op = "DEL"
   /\ thr[1].prog[1].key \in DOMAIN snap.data)
  =>
   LET k == thr[1].prog[1].key
   IN /\ {thr[1].res, thr[2].res} = {<<VInt(1)>>, <<VInt(0)>>}
      /\ total = snap.total - EntrySize(k, snap.data[k])

\* C37: with a budget configured, a SET that writes a smaller value over a
\* string key returns normally and evicts no other key: the size delta is
\* computed without unsigned underflow.
C37_ShrinkingOverwriteNoUnderflow ==
  IsEnabled(Engine) =>
    \A k \in DOMAIN data, v \in Vals :
      (data[k].data.kind = "String" /\ Len(v) < EstimatedSize(data[k].data)
         /\ ~ShouldRejectWrite(Engine)) =>
        \A o \in EngineSet(Engine, k, StringData(v), None) :
          /\ o.status = "ok"
          /\ DOMAIN o.e.data = DOMAIN data

\* C38: under allkeys-random or volatile-random, when the total has reached
\* the budget and the keyspace holds a key the policy may take, a SET of a new
\* key that is installed has first removed such a key.
C38_RandomPolicyEvicts ==
  (/\ policy \in {"AllKeysRandom", "VolatileRandom"}
   /\ CheckEvictionNeeded(Engine)
   /\ \E j \in DOMAIN data : Candidate(Engine, j))
  =>
   \A k \in Keys \ DOMAIN data, v \in Vals :
     \A o \in EngineSet(Engine, k, StringData(v), None) :
       o.status = "ok" =>
         \E j \in DOMAIN data : Candidate(Engine, j) /\ j \notin DOMAIN o.e.data

\* the commands that rewrite a collection through storage.set
CollectionWrites == {"HSET", "HDEL", "LPUSH", "RPUSH", "SADD"}

\* C39: HSET, HDEL, LPUSH, RPUSH and SADD on a key that is present leave the
\* key's deadline as it was: the entry keeps its expire_at, the schedule still
\* lists the key at that deadline and lists it at no instant it was not listed
\* at before.
C39_CollectionWritesKeepDeadline ==
  [][\A k \in DOMAIN data :
       (StepOf(CollectionWrites) /\ last'.key = k) =>
         /\ k \in DOMAIN data'
         /\ data'[k].expire_at = data[k].expire_at
         /\ data[k].expire_at # None => k \in exp'[data[k].expire_at]
         /\ \A t \in Instants : k \in exp'[t] => k \in exp[t]]_vars

\* C39 witness: a hash with a deadline still ahead was given a second field by
\* HSET and had one taken by HDEL, and is still scheduled at its deadline.
C39_Witness ==
  /\ last.op = "HDEL" /\ last.res = VInt(1)
  /\ "k1" \in DOMAIN data
  /\ data["k1"].data.kind = "Hash" /\ DOMAIN data["k1"].data.val = {"b"}
  /\ data["k1"].expire_at = 1 /\ now = 0
  /\ "k1" \in exp[1]

\* C40: when no sweep tick is in progress and no caller is in the middle of a
\* command, every key of the access-order sequence and of the LFU counter
\* table is present in the keyspace, and the access-order sequence holds no
\* key twice.
C40_TrackedKeysArePresent ==
  (SweeperIdle /\ thr = <<>>) =>
    /\ Range(lru) \subseteq DOMAIN data
    /\ DOMAIN cnt \subseteq DOMAIN data
    /\ \A i, j \in DOMAIN lru : lru[i] = lru[j] => i = j

====
